---- MODULE Spec2Model ----
(***************************************************************************)
(* Model of boyl's interactive capture pipeline.                           *)
(*                                                                         *)
(*  - FileList (src/ui/file/list.rs): the navigable, filterable directory  *)
(*    model (lazy indexing, expand / contract, per-node inclusion toggles, *)
(*    glob exclusion patterns, memoized inclusion queries).                *)
(*  - recursive_copy / visit (src/copy.rs, src/walkdir.rs, src/cmd/new.rs,*)
(*    src/cmd/make.rs): the tree replication of `boyl new` and, behind the *)
(*    picker's filter, of `boyl make`.                                     *)
(*  - FilePickerUi (src/ui/file/mod.rs, src/ui/input.rs): the picker's     *)
(*    modes and keys.                                                      *)
(*  - run_ui (src/ui/mod.rs): the event loop, its channel and producers.   *)
(*  - distribute (src/ui/layout.rs): the placement of boxes on lines.      *)
(*                                                                         *)
(* Paths are sequences of one-character names relative to the base         *)
(* directory; the base directory itself is <<>>.  Uuids are modelled by    *)
(* the naturals 1, 2, ... in order of creation; None is 0.                 *)
(***************************************************************************)
EXTENDS Integers, Sequences, FiniteSets, TLC

\* ------------------------------------------------------------------------
\* Bounds of the model
\* ------------------------------------------------------------------------

\* toggle_folder is not taken once file_list is longer than this.
MaxListLen == 5

None == 0

\* ------------------------------------------------------------------------
\* The filesystem: directory listings in read order
\* ------------------------------------------------------------------------

\* a, s/{c, d/{e}}: a directory that holds a file and a non-empty directory.
FsNested ==
    [ls |-> (<<>> :> <<"a", "s">>) @@ (<<"s">> :> <<"c", "d">>)
            @@ (<<"s", "d">> :> <<"e">>),
     data |-> (<<"a">> :> 1) @@ (<<"s", "c">> :> 2) @@ (<<"s", "d", "e">> :> 3)]

\* s/{d/}, a: a directory is read first; s/d is an empty directory.
FsDirFirst ==
    [ls |-> (<<>> :> <<"s", "a">>) @@ (<<"s">> :> <<"d">>)
            @@ (<<"s", "d">> :> <<>>),
     data |-> (<<"a">> :> 1)]

\* An empty base directory.
FsEmpty ==
    [ls |-> (<<>> :> <<>>),
     data |-> [p \in {} |-> 0]]

FileSystems == {FsNested, FsDirFirst, FsEmpty}

\* FsNested after another process created the file s/n.
FsNestedGrown ==
    [ls |-> (<<>> :> <<"a", "s">>) @@ (<<"s">> :> <<"c", "d", "n">>)
            @@ (<<"s", "d">> :> <<"e">>),
     data |-> (<<"a">> :> 1) @@ (<<"s", "c">> :> 2) @@ (<<"s", "d", "e">> :> 3)
              @@ (<<"s", "n">> :> 4)]

\* FsNested after another process removed the file s/c.
FsNestedShrunk ==
    [ls |-> (<<>> :> <<"a", "s">>) @@ (<<"s">> :> <<"d">>)
            @@ (<<"s", "d">> :> <<"e">>),
     data |-> (<<"a">> :> 1) @@ (<<"s", "d", "e">> :> 3)]

\* The contents the base directory passes through while the picker is open.
DiskStates == {FsNested, FsNestedGrown, FsNestedShrunk}

\* Path::is_dir
is_dir(fs, p) == p \in DOMAIN fs.ls

\* Path::read_dir(..).flatten().map(|e| e.path()): the entries in read order
read_dir(fs, p) == [i \in 1..Len(fs.ls[p]) |-> Append(p, fs.ls[p][i])]

\* Path::parent
parent_path(p) == SubSeq(p, 1, Len(p) - 1)

\* Every path below the base directory.
AllPaths(fs) ==
    UNION {{Append(d, fs.ls[d][i]) : i \in 1..Len(fs.ls[d])} : d \in DOMAIN fs.ls}

\* path.strip_prefix(base_path).to_str(): the components joined by '/'
RECURSIVE path_str(_)
path_str(p) ==
    IF Len(p) = 0 THEN <<>>
    ELSE IF Len(p) = 1 THEN <<p[1]>>
    ELSE path_str(SubSeq(p, 1, Len(p) - 1)) \o <<"/", p[Len(p)]>>

\* ------------------------------------------------------------------------
\* glob::Pattern (as called at list.rs:152 and list.rs:352)
\* ------------------------------------------------------------------------

is_separator(c) == c = "/"

Tok(t, c) == [t |-> t, c |-> c]

\* Index (>= from) of the first "]" in chars, or 0.
RECURSIVE position_close(_, _)
position_close(chars, from) ==
    IF from > Len(chars) THEN 0
    ELSE IF chars[from] = "]" THEN from
    ELSE position_close(chars, from + 1)

\* Index after the run of '*' that starts at i.
RECURSIVE star_run_end(_, _)
star_run_end(chars, i) ==
    IF i <= Len(chars) /\ chars[i] = "*" THEN star_run_end(chars, i + 1) ELSE i

\* Pattern::new: the token list, or an error.
RECURSIVE pattern_new_from(_, _, _)
pattern_new_from(chars, i, tokens) ==
    IF i > Len(chars) THEN [ok |-> TRUE, tokens |-> tokens]
    ELSE IF chars[i] = "?" THEN
        pattern_new_from(chars, i + 1, Append(tokens, Tok("AnyChar", "")))
    ELSE IF chars[i] = "*" THEN
        LET old   == i
            j     == star_run_end(chars, i)
            count == j - old
        IN  IF count > 2 THEN [ok |-> FALSE, tokens |-> <<>>]
            ELSE IF count = 2 THEN
                IF old = 1 \/ is_separator(chars[old - 1]) THEN
                    LET push == IF Len(tokens) > 1
                                   /\ tokens[Len(tokens)].t = "AnyRecursiveSequence"
                                THEN tokens
                                ELSE Append(tokens, Tok("AnyRecursiveSequence", ""))
                    IN  IF j <= Len(chars) /\ is_separator(chars[j])
                        THEN pattern_new_from(chars, j + 1, push)
                        ELSE IF j = Len(chars) + 1
                        THEN pattern_new_from(chars, j, push)
                        ELSE [ok |-> FALSE, tokens |-> <<>>]
                ELSE [ok |-> FALSE, tokens |-> <<>>]
            ELSE pattern_new_from(chars, j, Append(tokens, Tok("AnySequence", "")))
    ELSE IF chars[i] = "[" THEN
        IF i + 3 <= Len(chars) /\ chars[i + 1] = "!" THEN
            LET k == position_close(chars, i + 3)
            IN  IF k = 0 THEN [ok |-> FALSE, tokens |-> <<>>]
                ELSE pattern_new_from(chars, k + 1,
                        Append(tokens, Tok("AnyExcept", SubSeq(chars, i + 2, k - 1))))
        ELSE IF i + 2 <= Len(chars) /\ chars[i + 1] # "!" THEN
            LET k == position_close(chars, i + 2)
            IN  IF k = 0 THEN [ok |-> FALSE, tokens |-> <<>>]
                ELSE pattern_new_from(chars, k + 1,
                        Append(tokens, Tok("AnyWithin", SubSeq(chars, i + 1, k - 1))))
        ELSE [ok |-> FALSE, tokens |-> <<>>]
    ELSE pattern_new_from(chars, i + 1, Append(tokens, Tok("Char", chars[i])))

\* A glob::Pattern keeps its text and its tokens.
pattern_new(text) ==
    LET r == pattern_new_from(text, 1, <<>>)
    IN  [ok |-> r.ok, pattern |-> [original |-> text, tokens |-> r.tokens]]

\* in_char_specifiers, for specifiers without ranges
in_char_specifiers(cs, c) == \E k \in 1..Len(cs) : cs[k] = c

token_matches(tok, c) ==
    CASE tok.t = "AnyChar"   -> TRUE
      [] tok.t = "AnyWithin" -> in_char_specifiers(tok.c, c)
      [] tok.t = "AnyExcept" -> ~in_char_specifiers(tok.c, c)
      [] OTHER               -> tok.c = c

\* Pattern::matches_from with MatchOptions::new(); fp is the next character
\* of the file name, ti the next token.
RECURSIVE matches_from(_, _, _, _, _)
RECURSIVE matches_seq(_, _, _, _, _)
matches_from(tokens, s, follows_separator, fp, ti) ==
    IF ti > Len(tokens) THEN
        IF fp > Len(s) THEN "Match" ELSE "SubPatternDoesntMatch"
    ELSE IF tokens[ti].t \in {"AnySequence", "AnyRecursiveSequence"} THEN
        LET empty == matches_from(tokens, s, follows_separator, fp, ti + 1)
        IN  IF empty # "SubPatternDoesntMatch" THEN empty
            ELSE matches_seq(tokens, s, follows_separator, fp, ti)
    ELSE IF fp > Len(s) THEN "EntirePatternDoesntMatch"
    ELSE IF ~token_matches(tokens[ti], s[fp]) THEN "SubPatternDoesntMatch"
    ELSE matches_from(tokens, s, is_separator(s[fp]), fp + 1, ti + 1)

\* The `while let Some(c) = file.next()` loop of a sequence token.
matches_seq(tokens, s, follows_separator, fp, ti) ==
    IF fp > Len(s) THEN matches_from(tokens, s, follows_separator, fp, ti + 1)
    ELSE
        LET sep == is_separator(s[fp])
        IN  IF tokens[ti].t = "AnyRecursiveSequence" /\ ~sep
            THEN matches_seq(tokens, s, sep, fp + 1, ti)
            ELSE LET m == matches_from(tokens, s, sep, fp + 1, ti + 1)
                 IN  IF m # "SubPatternDoesntMatch" THEN m
                     ELSE matches_seq(tokens, s, sep, fp + 1, ti)

\* Pattern::matches_path
matches_path(pattern, s) ==
    matches_from(pattern.tokens, s, TRUE, 1, 1) = "Match"

\* ------------------------------------------------------------------------
\* FileList (src/ui/file/list.rs)
\* ------------------------------------------------------------------------

VARIABLES
    fs,                  \* the disk below base_path (changes in SpecDisk only)
    file_items,          \* Uuid -> FileListItem
    file_keys,           \* path -> Uuid
    file_list,           \* the displayed Uuids, in order
    indexed,             \* directories whose children have been read
    exclude_patterns,    \* the registered glob::Patterns
    exclude_exceptions,
    exclude_explicit,
    highlight,           \* 0-based index into file_list
    phase,               \* "picker": the screen runs; "copy": make filters the walk
    memo,                \* make's files_memo: path -> bool
    last_op,             \* the last FileList method called, and its outcome
    panicked,            \* the process has aborted on a panic
    to_visit,            \* walkdir::visit: the directories still to read
    file_stream,         \* walkdir::visit: entries read and not yet yielded
    dest_dirs,           \* directories below (and, as <<>>, at) the target root
    dest_files,          \* files below the target root, with their bytes
    copy_pc,             \* "idle", "copying" or "done"
    mode,                \* FilePickerUi::mode
    aborted,             \* FilePickerUi::aborted
    stdin,               \* the keys the user has yet to press
    channel,             \* the events sent and not yet received
    arrived,             \* every event sent into the channel, in order
    handled,             \* every event given to StateFsm::event, in order
    loop_pc,             \* where run_ui stands
    terminal,            \* "untouched", "cleared" or "drawn"
    resizes,             \* the changes of size the poll has seen
    max_width,           \* distribute: the width to fill
    elements,            \* distribute: the boxes
    positions,           \* distribute: the result, once computed
    queries,             \* the calls of is_included_memoized_async in progress
    current_state,       \* StateFsm: the screen that gets the events
    timers,              \* StateFsm: the tick tasks spawned so far
    draws,               \* the calls of terminal.draw so far
    yielded,             \* the entries visit has yielded as Ok, in order
    copies,              \* the paths copy_from_to was called on, in order
    templates,           \* config.templates: the keys of the registered templates
    template_dirs        \* the keys whose directory exists in the templates directory

copy_vars == <<to_visit, file_stream, dest_dirs, dest_files, copy_pc>>

ui_vars == <<mode, aborted>>

run_vars == <<stdin, channel, arrived, handled, loop_pc, terminal, resizes>>

layout_vars == <<max_width, elements, positions>>

query_vars == <<queries>>

fsm_vars == <<current_state, timers, draws>>

walk_vars == <<yielded, copies>>

config_vars == <<templates, template_dirs>>

fl_vars == <<fs, file_items, file_keys, file_list, indexed, exclude_patterns,
             exclude_exceptions, exclude_explicit, highlight>>

\* The FileList as a value (`self`).
FL ==
    [base_path          |-> fs,
     file_items         |-> file_items,
     file_keys          |-> file_keys,
     file_list          |-> file_list,
     indexed            |-> indexed,
     exclude_patterns   |-> exclude_patterns,
     exclude_exceptions |-> exclude_exceptions,
     exclude_explicit   |-> exclude_explicit,
     highlight          |-> highlight]

FileListItem(last, next, parent, path, depth) ==
    [last_sibling |-> last, next_sibling |-> next, parent |-> parent,
     open |-> FALSE, path |-> path, depth |-> depth]

\* The items created for the entries of one directory, keyed first+1 ..
\* first+k and chained as siblings in read order.
sibling_items(entries, first, parent, depth) ==
    [key \in (first + 1)..(first + Len(entries)) |->
        FileListItem(IF key = first + 1 THEN None ELSE key - 1,
                     IF key = first + Len(entries) THEN None ELSE key + 1,
                     parent, entries[key - first], depth)]

sibling_keys(entries, first) ==
    [p \in {entries[i] : i \in 1..Len(entries)} |->
        first + (CHOOSE i \in 1..Len(entries) : entries[i] = p)]

\* FileList::new
FileList_new(base) ==
    LET entries == read_dir(base, <<>>)
    IN  [base_path          |-> base,
         file_items         |-> sibling_items(entries, 0, None, 0),
         file_keys          |-> sibling_keys(entries, 0),
         file_list          |-> [i \in 1..Len(entries) |-> i],
         indexed            |-> {},
         exclude_patterns   |-> {},
         exclude_exceptions |-> {},
         exclude_explicit   |-> {},
         highlight          |-> 0]

saturating_sub(a, b) == IF a >= b THEN a - b ELSE 0
min(a, b) == IF a <= b THEN a ELSE b

\* FileList::go_up
go_up(self) == [self EXCEPT !.highlight = saturating_sub(self.highlight, 1)]

\* go_down without the bound of the list's length.
go_down_unbounded(self) ==
    [self EXCEPT !.highlight = self.highlight + 1]

\* go_down that wraps to the first entry instead of saturating.
go_down_wrapping(self) ==
    [self EXCEPT !.highlight =
        IF Len(self.file_list) = 0 THEN 0
        ELSE (self.highlight + 1) % Len(self.file_list)]

\* FileList::go_down
go_down(self) ==
    [self EXCEPT !.highlight =
        min(self.highlight + 1, saturating_sub(Len(self.file_list), 1))]

\* FileList::exclusion_pattern_matches
exclusion_pattern_matches(self, pattern, id) ==
    matches_path(pattern, path_str(self.file_items[id].path))

\* is_id_included that never asks the parent.
is_id_included_shallow(self, uuid) ==
    IF uuid \in self.exclude_exceptions THEN TRUE
    ELSE ~(\/ uuid \in self.exclude_explicit
           \/ \E pattern \in self.exclude_patterns :
                  exclusion_pattern_matches(self, pattern, uuid))

\* is_id_included that looks at the exclusions before the exceptions.
RECURSIVE is_id_included_exclusion_first(_, _)
is_id_included_exclusion_first(self, uuid) ==
    IF uuid \in self.exclude_explicit
       \/ \E pattern \in self.exclude_patterns :
              exclusion_pattern_matches(self, pattern, uuid)
    THEN FALSE
    ELSE IF uuid \in self.exclude_exceptions THEN TRUE
    ELSE IF self.file_items[uuid].parent # None
    THEN is_id_included_exclusion_first(self, self.file_items[uuid].parent)
    ELSE TRUE

\* FileList::is_id_included
RECURSIVE is_id_included(_, _)
is_id_included(self, uuid) ==
    IF uuid \in self.exclude_exceptions THEN TRUE
    ELSE IF uuid \in self.exclude_explicit
            \/ \E pattern \in self.exclude_patterns :
                   exclusion_pattern_matches(self, pattern, uuid)
    THEN FALSE
    ELSE IF self.file_items[uuid].parent # None
    THEN is_id_included(self, self.file_items[uuid].parent)
    ELSE TRUE

\* FileList::index_dir
index_dir(self, file_key) ==
    LET file_item == self.file_items[file_key]
        entries   == read_dir(self.base_path, file_item.path)
        first     == Cardinality(DOMAIN self.file_items)
    IN  [self EXCEPT
            !.file_items = self.file_items
                           @@ sibling_items(entries, first, file_key, file_item.depth + 1),
            !.file_keys  = self.file_keys @@ sibling_keys(entries, first),
            !.indexed    = self.indexed \cup {file_key}]

\* Vec::insert(index, element), index 0-based
vec_insert(v, index, element) ==
    SubSeq(v, 1, index) \o <<element>> \o SubSeq(v, index + 1, Len(v))

\* The loop of expand_dir: each child, in read order, is inserted at
\* index_in_list + 1.
RECURSIVE insert_children(_, _, _, _, _)
insert_children(list, keys, entries, i, index_in_list) ==
    IF i > Len(entries) THEN list
    ELSE insert_children(vec_insert(list, index_in_list + 1, keys[entries[i]]),
                         keys, entries, i + 1, index_in_list)

\* FileList::expand_dir
expand_dir(self, index_in_list) ==
    LET expand_file_key == self.file_list[index_in_list + 1]
        self1 == IF expand_file_key \notin self.indexed
                 THEN index_dir(self, expand_file_key)
                 ELSE self
        entries == read_dir(self1.base_path, self1.file_items[expand_file_key].path)
    IN  [self1 EXCEPT !.file_list =
            insert_children(self1.file_list, self1.file_keys, entries, 1, index_in_list)]

\* The unwrap of expand_dir: a child that read_dir lists and file_keys does
\* not hold (index_dir registers every entry it reads, so only a directory
\* indexed earlier can have one).
expand_dir_panics(self, index_in_list) ==
    LET expand_file_key == self.file_list[index_in_list + 1]
        self1 == IF expand_file_key \notin self.indexed
                 THEN index_dir(self, expand_file_key)
                 ELSE self
        entries == read_dir(self1.base_path, self1.file_items[expand_file_key].path)
    IN  \E i \in 1..Len(entries) : entries[i] \notin DOMAIN self1.file_keys

\* The take_while(..).count() of contract_dir: the entries after position
\* `from` (1-based) whose parent is the contracted directory.
RECURSIVE take_while_child(_, _, _)
take_while_child(self, from, contract_file_key) ==
    IF from > Len(self.file_list) THEN 0
    ELSE IF self.file_items[self.file_list[from]].parent = contract_file_key
    THEN 1 + take_while_child(self, from + 1, contract_file_key)
    ELSE 0

\* FileList::contract_dir
contract_dir(self, index_in_list) ==
    IF index_in_list = Len(self.file_list) - 1 THEN self
    ELSE
        LET contract_file_key == self.file_list[index_in_list + 1]
            to_remove == take_while_child(self, index_in_list + 2, contract_file_key)
        IN  [self EXCEPT !.file_list =
                SubSeq(self.file_list, 1, index_in_list + 1)
                \o SubSeq(self.file_list, index_in_list + 2 + to_remove,
                          Len(self.file_list))]

\* FileList::toggle_folder
toggle_folder(self) ==
    IF self.file_list = <<>> THEN self
    ELSE
        LET file_key == self.file_list[self.highlight + 1]
            file     == self.file_items[file_key]
        IN  IF ~is_dir(self.base_path, file.path) THEN self
            ELSE LET self1 == [self EXCEPT !.file_items[file_key].open = ~file.open]
                 IN  IF self1.file_items[file_key].open
                     THEN expand_dir(self1, self1.highlight)
                     ELSE contract_dir(self1, self1.highlight)

\* toggle_folder reaches the unwrap of expand_dir that panics.
toggle_folder_panics(self) ==
    /\ self.file_list # <<>>
    /\ LET file_key == self.file_list[self.highlight + 1]
           file     == self.file_items[file_key]
       IN  /\ is_dir(self.base_path, file.path)
           /\ ~file.open
           /\ expand_dir_panics(self, self.highlight)

\* toggle_exclude_file that clears the exceptions instead of removing one.
toggle_exclude_file_clears(self) ==
    LET file_key == self.file_list[self.highlight + 1]
    IN  IF is_id_included(self, file_key)
        THEN IF file_key \in self.exclude_exceptions
             THEN [self EXCEPT !.exclude_exceptions = {}]
             ELSE [self EXCEPT !.exclude_explicit = @ \cup {file_key}]
        ELSE IF file_key \in self.exclude_explicit
             THEN [self EXCEPT !.exclude_explicit = @ \ {file_key}]
             ELSE [self EXCEPT !.exclude_exceptions = @ \cup {file_key}]

\* toggle_exclude_file that excepts a node when it lifts its exclusion.
toggle_exclude_file_forces_inclusion(self) ==
    LET file_key == self.file_list[self.highlight + 1]
    IN  IF is_id_included(self, file_key)
        THEN IF file_key \in self.exclude_exceptions
             THEN [self EXCEPT !.exclude_exceptions = @ \ {file_key}]
             ELSE [self EXCEPT !.exclude_explicit = @ \cup {file_key}]
        ELSE IF file_key \in self.exclude_explicit
             THEN [self EXCEPT !.exclude_explicit = @ \ {file_key},
                               !.exclude_exceptions = @ \cup {file_key}]
             ELSE [self EXCEPT !.exclude_exceptions = @ \cup {file_key}]

\* toggle_exclude_file that excludes an included node explicitly without
\* looking for its exception.
toggle_exclude_file_keeps_exception(self) ==
    LET file_key == self.file_list[self.highlight + 1]
    IN  IF is_id_included(self, file_key)
        THEN [self EXCEPT !.exclude_explicit = @ \cup {file_key}]
        ELSE IF file_key \in self.exclude_explicit
             THEN [self EXCEPT !.exclude_explicit = @ \ {file_key}]
             ELSE [self EXCEPT !.exclude_exceptions = @ \cup {file_key}]

\* FileList::toggle_exclude_file (file_list[highlight] panics on an empty list)
toggle_exclude_file(self) ==
    LET file_key == self.file_list[self.highlight + 1]
    IN  IF is_id_included(self, file_key)
        THEN IF file_key \in self.exclude_exceptions
             THEN [self EXCEPT !.exclude_exceptions = @ \ {file_key}]
             ELSE [self EXCEPT !.exclude_explicit = @ \cup {file_key}]
        ELSE IF file_key \in self.exclude_explicit
             THEN [self EXCEPT !.exclude_explicit = @ \ {file_key}]
             ELSE [self EXCEPT !.exclude_exceptions = @ \cup {file_key}]

\* exclude_pattern that registers the pattern whatever the parse result is.
exclude_pattern_registers_first(self, text) ==
    LET parsed     == pattern_new(text)
        pattern    == parsed.pattern
        registered == [self EXCEPT !.exclude_patterns = @ \cup {pattern}]
    IN  IF ~parsed.ok THEN [ok |-> FALSE, self |-> registered]
        ELSE [ok   |-> TRUE,
              self |-> [registered EXCEPT
                  !.exclude_exceptions =
                      {id \in @ : ~exclusion_pattern_matches(self, pattern, id)},
                  !.exclude_explicit =
                      {id \in @ : ~exclusion_pattern_matches(self, pattern, id)}]]

\* exclude_pattern that unregisters a pattern that is registered already.
exclude_pattern_toggles(self, text) ==
    LET parsed  == pattern_new(text)
        pattern == parsed.pattern
    IN  IF ~parsed.ok THEN [ok |-> FALSE, self |-> self]
        ELSE [ok   |-> TRUE,
              self |-> [self EXCEPT
                  !.exclude_exceptions =
                      {id \in @ : ~exclusion_pattern_matches(self, pattern, id)},
                  !.exclude_explicit =
                      {id \in @ : ~exclusion_pattern_matches(self, pattern, id)},
                  !.exclude_patterns =
                      IF pattern \in @ THEN @ \ {pattern} ELSE @ \cup {pattern}]]

\* exclude_pattern that prunes the explicit exclusions only.
exclude_pattern_keeps_exceptions(self, text) ==
    LET parsed  == pattern_new(text)
        pattern == parsed.pattern
    IN  IF ~parsed.ok THEN [ok |-> FALSE, self |-> self]
        ELSE
            LET remove_from_explicit ==
                    {id \in self.exclude_explicit :
                        exclusion_pattern_matches(self, pattern, id)}
            IN  [ok   |-> TRUE,
                 self |-> [self EXCEPT
                     !.exclude_explicit   = @ \ remove_from_explicit,
                     !.exclude_patterns   = @ \cup {pattern}]]

\* FileList::exclude_pattern: Err leaves through the `?` of Pattern::new.
exclude_pattern(self, text) ==
    LET parsed  == pattern_new(text)
        pattern == parsed.pattern
    IN  IF ~parsed.ok THEN [ok |-> FALSE, self |-> self]
        ELSE
            LET remove_from_exceptions ==
                    {id \in self.exclude_exceptions :
                        exclusion_pattern_matches(self, pattern, id)}
                remove_from_explicit ==
                    {id \in self.exclude_explicit :
                        exclusion_pattern_matches(self, pattern, id)}
            IN  [ok   |-> TRUE,
                 self |-> [self EXCEPT
                     !.exclude_exceptions = @ \ remove_from_exceptions,
                     !.exclude_explicit   = @ \ remove_from_explicit,
                     !.exclude_patterns   = @ \cup {pattern}]]

\* is_included_memoized_async that stores the answer under the parent's path.
RECURSIVE is_included_memoized_async_parent_key(_, _, _)
is_included_memoized_async_parent_key(self, path, files_memo) ==
    IF path \in DOMAIN files_memo
    THEN [answer |-> files_memo[path], memo |-> files_memo]
    ELSE
        LET r == IF path \in DOMAIN self.file_keys
                 THEN [answer |-> is_id_included(self, self.file_keys[path]),
                       memo   |-> files_memo]
                 ELSE is_included_memoized_async_parent_key(
                          self, parent_path(path), files_memo)
        IN  [answer |-> r.answer,
             memo   |-> IF is_dir(self.base_path, path)
                        THEN (parent_path(path) :> r.answer) @@ r.memo
                        ELSE r.memo]

\* FileList::is_included_memoized_async: the answer and the memo it leaves.
RECURSIVE is_included_memoized_async(_, _, _)
is_included_memoized_async(self, path, files_memo) ==
    IF path \in DOMAIN files_memo
    THEN [answer |-> files_memo[path], memo |-> files_memo]
    ELSE
        LET r == IF path \in DOMAIN self.file_keys
                 THEN [answer |-> is_id_included(self, self.file_keys[path]),
                       memo   |-> files_memo]
                 ELSE is_included_memoized_async(self, parent_path(path), files_memo)
        IN  [answer |-> r.answer,
             memo   |-> IF is_dir(self.base_path, path)
                        THEN (path :> r.answer) @@ r.memo
                        ELSE r.memo]

\* ------------------------------------------------------------------------
\* The file picker's calls into its FileList (src/ui/file/mod.rs:250-261)
\* ------------------------------------------------------------------------

\* Pattern texts typed into the prompt: "s/*", "?", and the malformed "[",
\* "a**", "***".
PatternInputs ==
    {<<"s", "/", "*">>, <<"?">>,
     <<"[">>, <<"a", "*", "*">>, <<"*", "*", "*">>}

vars == <<fs, file_items, file_keys, file_list, indexed, exclude_patterns,
          exclude_exceptions, exclude_explicit, highlight, phase, memo,
          last_op, panicked, to_visit, file_stream, dest_dirs, dest_files,
          copy_pc, mode, aborted, stdin, channel, arrived, handled, loop_pc,
          terminal, resizes, max_width, elements, positions, queries,
          current_state, timers, draws, yielded, copies, templates,
          template_dirs>>

\* UiMode (mod.rs:25-29).  An InputField is its buffer, which ends in the
\* blank the caret rests on, and the caret; buffer_start only scrolls the
\* rendering.
InputField_new == [input_buffer |-> <<" ">>, caret_position |-> 0]

NoInputField == [input_buffer |-> <<>>, caret_position |-> 0]

ModeList == [tag |-> "List", input_field |-> NoInputField]

ModeInput(input_field) == [tag |-> "Input", input_field |-> input_field]

ModeError == [tag |-> "Error", input_field |-> NoInputField]

\* run_ui has not been started.
NoLoop ==
    /\ stdin = <<>>
    /\ channel = <<>>
    /\ arrived = <<>>
    /\ handled = <<>>
    /\ loop_pc = "idle"
    /\ terminal = "untouched"
    /\ resizes = 0

\* One screen, no tick task, nothing drawn.
NoFsm ==
    /\ current_state = 0
    /\ timers = <<>>
    /\ draws = 0

\* visit has yielded nothing and nothing was copied.
NoWalk ==
    /\ yielded = <<>>
    /\ copies = <<>>

\* No template is registered or stored.
NoConfig ==
    /\ templates = {}
    /\ template_dirs = {}

\* is_included_memoized_async has not been called.
NoQueries == queries = <<>>

\* distribute has not been called.
NoLayout ==
    /\ max_width = 0
    /\ elements = <<>>
    /\ positions = <<>>

\* Assign a FileList value to the state.
Store(self) ==
    /\ file_items' = self.file_items
    /\ file_keys' = self.file_keys
    /\ file_list' = self.file_list
    /\ indexed' = self.indexed
    /\ exclude_patterns' = self.exclude_patterns
    /\ exclude_exceptions' = self.exclude_exceptions
    /\ exclude_explicit' = self.exclude_explicit
    /\ highlight' = self.highlight
    /\ UNCHANGED fs

\* FilePickerUi::new on some base directory
Init ==
    /\ fs \in FileSystems
    /\ file_items = FileList_new(fs).file_items
    /\ file_keys = FileList_new(fs).file_keys
    /\ file_list = FileList_new(fs).file_list
    /\ indexed = {}
    /\ exclude_patterns = {}
    /\ exclude_exceptions = {}
    /\ exclude_explicit = {}
    /\ highlight = 0
    /\ phase = "picker"
    /\ memo = <<>>
    /\ last_op = "new"
    /\ panicked = FALSE
    /\ to_visit = <<>>
    /\ file_stream = <<>>
    /\ dest_dirs = {}
    /\ dest_files = <<>>
    /\ copy_pc = "idle"
    /\ mode = ModeList
    /\ aborted = FALSE
    /\ NoLoop
    /\ NoLayout
    /\ NoQueries
    /\ NoFsm
    /\ NoWalk
    /\ NoConfig

\* A key of the list mode reaches the FileList while the screen runs.
InPicker == ~panicked /\ phase = "picker"

GoUp ==
    /\ InPicker
    /\ Store(go_up(FL))
    /\ last_op' = IF go_up(FL).highlight = highlight
                  THEN "go_up, stayed" ELSE "go_up, moved"
    /\ UNCHANGED <<ui_vars, run_vars, layout_vars, query_vars, fsm_vars, walk_vars, config_vars>>
    /\ UNCHANGED <<phase, memo, panicked, copy_vars>>

GoDown ==
    /\ InPicker
    /\ Store(go_down(FL))
    /\ last_op' = IF go_down(FL).highlight = highlight
                  THEN "go_down, stayed" ELSE "go_down, moved"
    /\ UNCHANGED <<ui_vars, run_vars, layout_vars, query_vars, fsm_vars, walk_vars, config_vars>>
    /\ UNCHANGED <<phase, memo, panicked, copy_vars>>

ToggleFolder ==
    /\ InPicker
    /\ Len(file_list) <= MaxListLen
    /\ IF toggle_folder_panics(FL)
       THEN panicked' = TRUE /\ UNCHANGED fl_vars
       ELSE panicked' = FALSE /\ Store(toggle_folder(FL))
    /\ last_op' = "toggle_folder"
    /\ UNCHANGED <<ui_vars, run_vars, layout_vars, query_vars, fsm_vars, walk_vars, config_vars>>
    /\ UNCHANGED <<phase, memo, copy_vars>>

\* Indexing file_list[highlight] of an empty list panics.
ToggleExcludeFile ==
    /\ InPicker
    /\ IF file_list = <<>>
       THEN /\ panicked' = TRUE
            /\ UNCHANGED fl_vars
       ELSE /\ Store(toggle_exclude_file(FL))
            /\ UNCHANGED panicked
    /\ last_op' = "toggle_exclude_file"
    /\ UNCHANGED <<ui_vars, run_vars, layout_vars, query_vars, fsm_vars, walk_vars, config_vars>>
    /\ UNCHANGED <<phase, memo, copy_vars>>

ExcludePattern ==
    /\ InPicker
    /\ \E text \in PatternInputs :
          LET r == exclude_pattern(FL, text)
          IN  /\ Store(r.self)
              /\ last_op' = IF ~r.ok THEN "exclude_pattern Err"
                            ELSE IF pattern_new(text).pattern \in exclude_patterns
                            THEN "exclude_pattern Ok, registered before"
                            ELSE "exclude_pattern Ok"
    /\ UNCHANGED <<ui_vars, run_vars, layout_vars, query_vars, fsm_vars, walk_vars, config_vars>>
    /\ UNCHANGED <<phase, memo, panicked, copy_vars>>

\* Enter in list mode: the screen exits and make (make.rs:172-173) shares the
\* FileList and an empty files_memo with the filter of the walk.
PickerExit ==
    /\ InPicker
    /\ phase' = "copy"
    /\ memo' = <<>>
    /\ last_op' = "exit"
    /\ UNCHANGED <<ui_vars, run_vars, layout_vars, query_vars, fsm_vars, walk_vars, config_vars>>
    /\ UNCHANGED <<fl_vars, panicked, copy_vars>>

\* The filter of make.rs:185 asks about an entry below the base directory.
Query ==
    /\ ~panicked
    /\ phase = "copy"
    /\ \E path \in AllPaths(fs) :
          memo' = is_included_memoized_async(FL, path, memo).memo
    /\ last_op' = "is_included_memoized_async"
    /\ UNCHANGED <<ui_vars, run_vars, layout_vars, query_vars, fsm_vars, walk_vars, config_vars>>
    /\ UNCHANGED <<fl_vars, phase, panicked, copy_vars>>

Next ==
    \/ GoUp
    \/ GoDown
    \/ ToggleFolder
    \/ ToggleExcludeFile
    \/ ExcludePattern
    \/ PickerExit
    \/ Query

Spec == Init /\ [][Next]_vars

\* ------------------------------------------------------------------------
\* The picker on a directory that other processes write to: every
\* path.is_dir() and path.read_dir() of the FileList sees the directory as
\* it is at the time of the call.

InitDisk ==
    /\ Init
    /\ fs = FsNested

\* Another process creates or removes a file below the base directory.
DiskChanges ==
    /\ InPicker
    /\ fs' \in DiskStates \ {fs}
    /\ last_op' = "disk changes"
    /\ UNCHANGED <<file_items, file_keys, file_list, indexed, exclude_patterns,
                   exclude_exceptions, exclude_explicit, highlight>>
    /\ UNCHANGED <<ui_vars, run_vars, layout_vars, query_vars, fsm_vars, walk_vars, config_vars>>
    /\ UNCHANGED <<phase, memo, panicked, copy_vars>>

NextDisk ==
    \/ GoUp
    \/ GoDown
    \/ ToggleFolder
    \/ DiskChanges

SpecDisk == InitDisk /\ [][NextDisk]_vars

\* ------------------------------------------------------------------------
\* boyl new: walkdir::visit feeding recursive_copy
\* (src/walkdir.rs, src/copy.rs, src/cmd/new.rs)
\* ------------------------------------------------------------------------

\* All orderings of the elements of a sequence.
RECURSIVE Perms(_)
Perms(seq) ==
    IF Len(seq) = 0 THEN {<<>>}
    ELSE UNION {{<<seq[i]>> \o rest :
                    rest \in Perms(SubSeq(seq, 1, i - 1) \o SubSeq(seq, i + 1, Len(seq)))}
                : i \in 1..Len(seq)}

\* a, b, s/{c}
FsWide ==
    [ls |-> (<<>> :> <<"a", "b", "s">>) @@ (<<"s">> :> <<"c">>),
     data |-> (<<"a">> :> 1) @@ (<<"b">> :> 2) @@ (<<"s", "c">> :> 3)]

\* The trees of a shape: every directory listed in every read order.
ReadOrders(shape) ==
    {[ls |-> f, data |-> shape.data] :
        f \in {g \in [DOMAIN shape.ls -> UNION {Perms(shape.ls[d]) : d \in DOMAIN shape.ls}] :
                  \A d \in DOMAIN shape.ls : g[d] \in Perms(shape.ls[d])}}

\* The stored templates `boyl new` is run on.
TemplateTrees ==
    ReadOrders(FsNested) \cup ReadOrders(FsDirFirst) \cup ReadOrders(FsWide)
    \cup {FsEmpty}

\* The target tree as a value.
Dest == [dirs |-> dest_dirs, files |-> dest_files]

\* Path::exists below the target root
exists(dst, p) == p \in dst.dirs \/ p \in DOMAIN dst.files

Prefixes(p) == {SubSeq(p, 1, k) : k \in 0..Len(p)}

\* tokio::fs::create_dir: the parent must be a directory and the path new.
create_dir(dst, p) ==
    IF parent_path(p) \in dst.dirs /\ ~exists(dst, p)
    THEN [ok |-> TRUE, dst |-> [dst EXCEPT !.dirs = @ \cup {p}]]
    ELSE [ok |-> FALSE, dst |-> dst]

\* tokio::fs::create_dir_all: the missing ancestors are created as well (the
\* directory that holds the target root exists, new.rs:67).
create_dir_all(dst, p) ==
    IF Prefixes(p) \cap DOMAIN dst.files = {}
    THEN [ok |-> TRUE, dst |-> [dst EXCEPT !.dirs = @ \cup Prefixes(p)]]
    ELSE [ok |-> FALSE, dst |-> dst]

\* tokio::fs::copy: the bytes of `from` become the file `to`.
fs_copy(src, dst, from, to) ==
    IF parent_path(to) \in dst.dirs /\ to \notin dst.dirs
    THEN [ok |-> TRUE,
          dst |-> [dst EXCEPT !.files =
                      (to :> src.data[from])
                      @@ [q \in DOMAIN dst.files \ {to} |-> dst.files[q]]]]
    ELSE [ok |-> FALSE, dst |-> dst]

\* copy_from_to
copy_from_to(src, dst, from, to) ==
    IF is_dir(src, from) THEN
        IF ~exists(dst, to) THEN create_dir(dst, to)
        ELSE [ok |-> TRUE, dst |-> dst]
    ELSE
        LET parent == parent_path(to)
            made   == IF ~exists(dst, parent) THEN create_dir_all(dst, parent)
                      ELSE [ok |-> TRUE, dst |-> dst]
        IN  IF ~made.ok THEN made
            ELSE fs_copy(src, made.dst, from, to)

\* `new` is not given a FileList.
NoFileList ==
    /\ file_items = <<>>
    /\ file_keys = <<>>
    /\ file_list = <<>>
    /\ indexed = {}
    /\ exclude_patterns = {}
    /\ exclude_exceptions = {}
    /\ exclude_explicit = {}
    /\ highlight = 0
    /\ memo = <<>>

\* new (new.rs:72-92): the target is absent or an empty directory, and the
\* walk starts at the template's directory.
InitNew ==
    /\ fs \in TemplateTrees
    /\ NoFileList
    /\ phase = "new"
    /\ last_op = "new"
    /\ panicked = FALSE
    /\ to_visit = << <<>> >>
    /\ file_stream = <<>>
    /\ dest_dirs \in {{}, {<<>>}}
    /\ dest_files = <<>>
    /\ copy_pc = "copying"
    /\ mode = ModeList
    /\ aborted = FALSE
    /\ NoLoop
    /\ NoLayout
    /\ NoQueries
    /\ NoFsm
    /\ NoWalk
    /\ NoConfig

\* The directories whose fs::read_dir fails and the entries whose
\* metadata() fails, on a disk that has such.
read_fails(src) == IF "read_fails" \in DOMAIN src THEN src.read_fails ELSE {}
metadata_fails(src) ==
    IF "metadata_fails" \in DOMAIN src THEN src.metadata_fails ELSE {}

\* The while loop of one_level from the i-th entry on: the `?` on metadata
\* returns the error and drops `files`; what was pushed to to_visit stays.
RECURSIVE one_level_from(_, _, _, _, _)
one_level_from(src, entries, i, files, stack) ==
    IF i > Len(entries) THEN [ok |-> TRUE, files |-> files, to_visit |-> stack]
    ELSE IF entries[i] \in metadata_fails(src)
    THEN [ok |-> FALSE, files |-> <<>>, to_visit |-> stack]
    ELSE one_level_from(src, entries, i + 1, Append(files, entries[i]),
                        IF is_dir(src, entries[i])
                        THEN Append(stack, entries[i]) ELSE stack)

\* one_level that yields the entries and forgets the subdirectories.
one_level_forgets_subdirs(src, path, stack) ==
    IF path \in read_fails(src)
    THEN [ok |-> FALSE, files |-> <<>>, to_visit |-> stack]
    ELSE [one_level_from(src, read_dir(src, path), 1, <<>>, stack)
             EXCEPT !.to_visit = stack]

\* one_level (walkdir.rs:14-27)
one_level(src, path, stack) ==
    IF path \in read_fails(src)
    THEN [ok |-> FALSE, files |-> <<>>, to_visit |-> stack]
    ELSE one_level_from(src, read_dir(src, path), 1, <<>>, stack)

\* One step of stream::unfold in visit: pop a directory, read it (one_level),
\* and hand its entries to the flattened stream.  An Err of one_level is the
\* one item of the level; the filter_map of the caller prints it (make.rs:
\* 191-194) or not (new.rs:89) and drops it.
WalkLevel ==
    /\ ~panicked
    /\ copy_pc = "copying"
    /\ file_stream = <<>>
    /\ to_visit # <<>>
    /\ LET path == to_visit[Len(to_visit)]
           r    == one_level(fs, path, SubSeq(to_visit, 1, Len(to_visit) - 1))
       IN  /\ to_visit' = r.to_visit
           /\ file_stream' = r.files
           /\ yielded' = yielded \o r.files
           /\ last_op' = IF r.ok THEN last_op ELSE "Ignoring file"
    /\ UNCHANGED <<ui_vars, run_vars, layout_vars, query_vars, fsm_vars, copies, config_vars>>
    /\ UNCHANGED <<fl_vars, phase, memo, panicked, dest_dirs, dest_files,
                   copy_pc>>

\* One turn of the loop of recursive_copy: the next entry is copied to the
\* same relative path; an error removes the target root and panics.
CopyEntry ==
    /\ ~panicked
    /\ copy_pc = "copying"
    /\ file_stream # <<>>
    /\ LET file == Head(file_stream)
           r    == copy_from_to(fs, Dest, file, file)
       IN  IF r.ok
           THEN /\ dest_dirs' = r.dst.dirs
                /\ dest_files' = r.dst.files
                /\ UNCHANGED panicked
           ELSE /\ dest_dirs' = {}
                /\ dest_files' = <<>>
                /\ panicked' = TRUE
    /\ last_op' = IF copy_from_to(fs, Dest, Head(file_stream), Head(file_stream)).ok
                  THEN "copied" ELSE "copy failed"
    /\ copies' = Append(copies, Head(file_stream))
    /\ file_stream' = Tail(file_stream)
    /\ UNCHANGED <<ui_vars, run_vars, layout_vars, query_vars, fsm_vars, yielded, config_vars>>
    /\ UNCHANGED <<fl_vars, phase, memo, to_visit, copy_pc>>

\* CopyEntryFails that panics and leaves the target as the failure found it.
CopyEntryFails_keeps_target ==
    /\ ~panicked
    /\ copy_pc = "copying"
    /\ file_stream # <<>>
    /\ panicked' = TRUE
    /\ last_op' = "copy failed"
    /\ copies' = Append(copies, Head(file_stream))
    /\ file_stream' = Tail(file_stream)
    /\ UNCHANGED <<ui_vars, run_vars, layout_vars, query_vars, fsm_vars, yielded, config_vars>>
    /\ UNCHANGED <<fl_vars, phase, memo, to_visit, copy_pc, dest_dirs, dest_files>>

\* A turn of the loop of recursive_copy in which tokio::fs returns an error
\* the tree does not explain (the disk is full, a permission is missing):
\* copy.rs:38-52 prints it, removes the target root and panics.
CopyEntryFails ==
    /\ ~panicked
    /\ copy_pc = "copying"
    /\ file_stream # <<>>
    /\ dest_dirs' = {}
    /\ dest_files' = <<>>
    /\ panicked' = TRUE
    /\ last_op' = "copy failed"
    /\ copies' = Append(copies, Head(file_stream))
    /\ file_stream' = Tail(file_stream)
    /\ UNCHANGED <<ui_vars, run_vars, layout_vars, query_vars, fsm_vars, yielded, config_vars>>
    /\ UNCHANGED <<fl_vars, phase, memo, to_visit, copy_pc>>

\* The stream has ended: recursive_copy returns.
CopyDone ==
    /\ ~panicked
    /\ copy_pc = "copying"
    /\ file_stream = <<>>
    /\ to_visit = <<>>
    /\ copy_pc' = "done"
    /\ UNCHANGED <<ui_vars, run_vars, layout_vars, query_vars, fsm_vars, walk_vars, config_vars>>
    /\ UNCHANGED <<fl_vars, phase, memo, last_op, panicked, to_visit, file_stream,
                   dest_dirs, dest_files>>

NextNew ==
    \/ WalkLevel
    \/ CopyEntry
    \/ CopyDone

SpecNew == InitNew /\ [][NextNew]_vars

\* boyl new on a disk whose writes can fail.
NextNewIoErrors ==
    \/ WalkLevel
    \/ CopyEntry
    \/ CopyEntryFails
    \/ CopyDone

SpecNewIoErrors == InitNew /\ [][NextNewIoErrors]_vars

\* ------------------------------------------------------------------------
\* The file picker screen (src/ui/file/mod.rs, src/ui/input.rs)
\* ------------------------------------------------------------------------

\* termion's Key values
Char(c) == [key |-> "Char", c |-> c]
Ctrl(c) == [key |-> "Ctrl", c |-> c]
Named(k) == [key |-> k, c |-> ""]

\* The characters typed into the prompt; x, like j, k, o, r and z, is a
\* command of the list mode.
TypedChars == {"?", "[", "x"}

\* The keys the user presses.
Keys ==
    {Char(c) : c \in TypedChars \cup {"j", "k", "o", "r", "z", "\n", "\r", "\t"}}
    \cup {Ctrl("c")}
    \cup {Named(k) : k \in {"Up", "Down", "Left", "Right", "Backspace",
                             "Delete", "Esc"}}


\* Vec::remove / String::remove at a 0-based index
vec_remove(v, index) == SubSeq(v, 1, index) \o SubSeq(v, index + 2, Len(v))

\* InputField::add_char
add_char(field, c) ==
    [input_buffer   |-> vec_insert(field.input_buffer, field.caret_position, c),
     caret_position |-> field.caret_position + 1]

\* InputField::backspace_char
backspace_char(field) ==
    IF field.caret_position = 0 THEN field
    ELSE [input_buffer   |-> vec_remove(field.input_buffer, field.caret_position - 1),
          caret_position |-> saturating_sub(field.caret_position, 1)]

\* delete_char without the guard on the last position.
delete_char_unguarded(field) ==
    [field EXCEPT !.input_buffer = vec_remove(@, field.caret_position)]

\* InputField::delete_char
delete_char(field) ==
    IF field.caret_position = Len(field.input_buffer) - 1 THEN field
    ELSE [field EXCEPT !.input_buffer = vec_remove(@, field.caret_position)]

\* InputField::caret_move_left
caret_move_left(field) ==
    [field EXCEPT !.caret_position = saturating_sub(@, 1)]

\* InputField::caret_move_right
caret_move_right(field) ==
    [field EXCEPT !.caret_position =
        min(saturating_sub(Len(field.input_buffer), 1), @ + 1)]

\* InputField::consume_input
consume_input(field) ==
    SubSeq(field.input_buffer, 1, Len(field.input_buffer) - 1)

\* The texts the user brings the prompt to: nothing, "?", "x", and the
\* malformed "[" and "[x".
PromptTexts == {<<>>, <<"?">>, <<"x">>, <<"[">>, <<"[", "x">>}

\* The FilePickerUi as a value (`self`).
PickerUi == [file_list |-> FL, mode |-> mode, aborted |-> aborted]

\* FilePickerUi::ignore_pattern
ignore_pattern(self, pattern) ==
    LET r == exclude_pattern(self.file_list, pattern)
    IN  [ok |-> r.ok, self |-> [self EXCEPT !.file_list = r.self]]

\* What on_key hands back: the screen, the reaction, and whether it panicked
\* on the way.
Reacted(self, reaction) == [self |-> self, reaction |-> reaction, panic |-> FALSE]

\* on_key, the arm of UiMode::List
on_key_list(self, key) ==
    IF key = Ctrl("c") THEN Reacted([self EXCEPT !.aborted = TRUE], "Exit")
    ELSE IF key \in {Named("Up"), Char("k")}
    THEN Reacted([self EXCEPT !.file_list = go_up(@)], "None")
    ELSE IF key \in {Named("Down"), Char("j")}
    THEN Reacted([self EXCEPT !.file_list = go_down(@)], "None")
    ELSE IF key = Char("o")
    THEN Reacted([self EXCEPT !.file_list = toggle_folder(@)], "None")
    ELSE IF key = Char("x")
    THEN IF self.file_list.file_list = <<>>
         THEN [self |-> self, reaction |-> "None", panic |-> TRUE]
         ELSE Reacted([self EXCEPT !.file_list = toggle_exclude_file(@)], "None")
    ELSE IF key = Char("r")
    THEN Reacted([self EXCEPT !.file_list = FileList_new(@.base_path)], "None")
    ELSE IF key = Char("z")
    THEN Reacted([self EXCEPT !.mode = ModeInput(InputField_new)], "None")
    ELSE IF key \in {Char("\n"), Char("\r")}
    THEN Reacted(self, "Exit")
    ELSE Reacted(self, "None")

\* on_key, the arm of UiMode::Input
on_key_input(self, key) ==
    LET input_field == self.mode.input_field
    IN  IF key = Ctrl("c") THEN Reacted([self EXCEPT !.mode = ModeList], "None")
        ELSE IF key \in {Char("\n"), Char("\r")}
        THEN LET r == ignore_pattern(self, consume_input(input_field))
             IN  Reacted([r.self EXCEPT !.mode =
                             IF r.ok THEN ModeList ELSE ModeError], "None")
        ELSE IF key = Char("\t") THEN Reacted(self, "None")
        ELSE IF key.key = "Char"
        THEN Reacted([self EXCEPT !.mode = ModeInput(add_char(input_field, key.c))],
                     "None")
        ELSE IF key = Named("Backspace")
        THEN Reacted([self EXCEPT !.mode = ModeInput(backspace_char(input_field))],
                     "None")
        ELSE IF key = Named("Delete")
        THEN Reacted([self EXCEPT !.mode = ModeInput(delete_char(input_field))],
                     "None")
        ELSE IF key = Named("Left")
        THEN Reacted([self EXCEPT !.mode = ModeInput(caret_move_left(input_field))],
                     "None")
        ELSE IF key = Named("Right")
        THEN Reacted([self EXCEPT !.mode = ModeInput(caret_move_right(input_field))],
                     "None")
        ELSE Reacted(self, "None")

\* on_key, the arm of UiMode::Error
on_key_error(self, key) == Reacted([self EXCEPT !.mode = ModeList], "None")

\* on_key that takes Ctrl-C in the prompt for an abort.
on_key_prompt_aborts(self, key) ==
    IF self.mode.tag = "List" THEN on_key_list(self, key)
    ELSE IF self.mode.tag = "Input"
    THEN IF key = Ctrl("c") THEN Reacted([self EXCEPT !.aborted = TRUE], "Exit")
         ELSE on_key_input(self, key)
    ELSE on_key_error(self, key)

\* on_key that lets x reach the FileList while the prompt is open.
on_key_prompt_passes_commands(self, key) ==
    IF self.mode.tag = "List" THEN on_key_list(self, key)
    ELSE IF self.mode.tag = "Input"
    THEN IF key = Char("x") /\ self.file_list.file_list # <<>>
         THEN Reacted([self EXCEPT !.file_list = toggle_exclude_file(@)], "None")
         ELSE on_key_input(self, key)
    ELSE on_key_error(self, key)

\* on_key that takes the key pressed on the error line for a command of the
\* list mode.
on_key_error_passes_key(self, key) ==
    IF self.mode.tag = "List" THEN on_key_list(self, key)
    ELSE IF self.mode.tag = "Input" THEN on_key_input(self, key)
    ELSE on_key_list([self EXCEPT !.mode = ModeList], key)

\* FilePickerUi::on_key
on_key(self, key) ==
    IF self.mode.tag = "List" THEN on_key_list(self, key)
    ELSE IF self.mode.tag = "Input" THEN on_key_input(self, key)
    ELSE on_key_error(self, key)

\* FilePickerUi::on_tick
on_tick(self) == Reacted(self, "None")

\* Assign a FilePickerUi value to the state.
StoreUi(self) ==
    /\ Store(self.file_list)
    /\ mode' = self.mode
    /\ aborted' = self.aborted

\* The directories the picker is opened on.
PickerTrees == {FsDirFirst, FsEmpty}

\* What last_op keeps of a key: whether it was Ctrl-C, Enter or another.
KeyClass(key) ==
    IF key = Ctrl("c") THEN "Ctrl-c"
    ELSE IF key \in {Char("\n"), Char("\r")} THEN "Enter"
    ELSE "other"

\* FilePickerUi::new; last_op is here the mode the last key found and the
\* class of that key.
InitPicker ==
    /\ fs \in PickerTrees
    /\ file_items = FileList_new(fs).file_items
    /\ file_keys = FileList_new(fs).file_keys
    /\ file_list = FileList_new(fs).file_list
    /\ indexed = {}
    /\ exclude_patterns = {}
    /\ exclude_exceptions = {}
    /\ exclude_explicit = {}
    /\ highlight = 0
    /\ phase = "picker"
    /\ memo = <<>>
    /\ last_op = <<"new", "other">>
    /\ panicked = FALSE
    /\ to_visit = <<>>
    /\ file_stream = <<>>
    /\ dest_dirs = {}
    /\ dest_files = <<>>
    /\ copy_pc = "idle"
    /\ mode = ModeList
    /\ aborted = FALSE
    /\ NoLoop
    /\ NoLayout
    /\ NoQueries
    /\ NoFsm
    /\ NoWalk
    /\ NoConfig

\* StateFsm::event hands a key to the screen; on Exit run_ui returns.
OnKey ==
    /\ InPicker
    /\ \E key \in Keys :
          /\ (mode.tag = "List" /\ key = Char("o")) => Len(file_list) <= MaxListLen
          /\ (mode.tag = "Input" /\ key.key = "Char"
                /\ key.c \notin {"\n", "\r", "\t"})
                => consume_input(add_char(mode.input_field, key.c)) \in PromptTexts
          /\ LET r == on_key(PickerUi, key)
             IN  /\ StoreUi(r.self)
                 /\ panicked' = r.panic
                 /\ phase' = IF r.reaction = "Exit" THEN "exited" ELSE phase
                 /\ last_op' = <<mode.tag, KeyClass(key)>>
    /\ UNCHANGED <<memo, copy_vars, run_vars, layout_vars, query_vars, fsm_vars, walk_vars, config_vars>>

NextPicker == OnKey

SpecPicker == InitPicker /\ [][NextPicker]_vars

\* ------------------------------------------------------------------------
\* The prompt of the picker (src/ui/input.rs:22-90), edited key by key.
\* last_op is here the text the edits make, kept as the characters before
\* the caret and the characters after it.
\* ------------------------------------------------------------------------

\* The longest text typed.
MaxInputLen == 3

\* The characters typed; the space is the character of the sentinel.
InputChars == {"a", "b", " "}

\* FilePickerUi::new followed by z (src/ui/file/mod.rs:242-262): the prompt
\* opens on InputField::new().
InitInput ==
    /\ fs \in PickerTrees
    /\ file_items = FileList_new(fs).file_items
    /\ file_keys = FileList_new(fs).file_keys
    /\ file_list = FileList_new(fs).file_list
    /\ indexed = {}
    /\ exclude_patterns = {}
    /\ exclude_exceptions = {}
    /\ exclude_explicit = {}
    /\ highlight = 0
    /\ phase = "picker"
    /\ memo = <<>>
    /\ last_op = [left |-> <<>>, right |-> <<>>]
    /\ panicked = FALSE
    /\ to_visit = <<>>
    /\ file_stream = <<>>
    /\ dest_dirs = {}
    /\ dest_files = <<>>
    /\ copy_pc = "idle"
    /\ mode = ModeInput(InputField_new)
    /\ aborted = FALSE
    /\ NoLoop
    /\ NoLayout
    /\ NoQueries
    /\ NoFsm
    /\ NoWalk
    /\ NoConfig

\* The prompt takes a key: on_key in UiMode::Input.
InputKey(key) ==
    /\ InPicker
    /\ mode.tag = "Input"
    /\ LET r == on_key(PickerUi, key)
       IN  /\ StoreUi(r.self)
           /\ panicked' = r.panic
    /\ UNCHANGED <<phase, memo, copy_vars, run_vars, layout_vars, query_vars,
                   fsm_vars, walk_vars, config_vars>>

\* A character is typed: add_char.
InputAddChar ==
    /\ Len(last_op.left) + Len(last_op.right) < MaxInputLen
    /\ \E c \in InputChars :
          /\ InputKey(Char(c))
          /\ last_op' = [last_op EXCEPT !.left = Append(@, c)]

\* Backspace: backspace_char.
InputBackspace ==
    /\ InputKey(Named("Backspace"))
    /\ last_op' = IF last_op.left = <<>> THEN last_op
                  ELSE [last_op EXCEPT
                           !.left = SubSeq(@, 1, Len(@) - 1)]

\* Delete: delete_char.
InputDelete ==
    /\ InputKey(Named("Delete"))
    /\ last_op' = IF last_op.right = <<>> THEN last_op
                  ELSE [last_op EXCEPT !.right = Tail(@)]

\* Left: caret_move_left.
InputLeft ==
    /\ InputKey(Named("Left"))
    /\ last_op' = IF last_op.left = <<>> THEN last_op
                  ELSE [left  |-> SubSeq(last_op.left, 1, Len(last_op.left) - 1),
                        right |-> <<last_op.left[Len(last_op.left)]>>
                                      \o last_op.right]

\* Right: caret_move_right.
InputRight ==
    /\ InputKey(Named("Right"))
    /\ last_op' = IF last_op.right = <<>> THEN last_op
                  ELSE [left  |-> Append(last_op.left, Head(last_op.right)),
                        right |-> Tail(last_op.right)]

NextInput ==
    \/ InputAddChar
    \/ InputBackspace
    \/ InputDelete
    \/ InputLeft
    \/ InputRight

SpecInput == InitInput /\ [][NextInput]_vars

\* ------------------------------------------------------------------------
\* run_ui: the event loop, its channel and its producers (src/ui/mod.rs)
\* ------------------------------------------------------------------------

\* tokio::sync::mpsc::channel::<FsmEvent>(10_usize)
ChannelCapacity == 10

\* The poll of the terminal's size sees at most this many changes.
MaxResizes == 2

\* FsmEvent
FsmTick == [event |-> "Tick", key |-> Named("none")]
FsmKey(key) == [event |-> "Key", key |-> key]

\* What the user types while the picker runs: a session that fills the
\* channel and ends with Enter; a malformed pattern, dismissed, then Ctrl-C;
\* keys that never end the screen; x as the first key.
KeyScripts ==
    {<<Char("j"), Char("o"), Char("x"), Char("z"), Char("?"), Char("\n"),
       Char("k"), Char("x"), Char("o"), Named("Down"), Char("\n"), Char("x"),
       Char("j")>>,
     <<Char("z"), Char("["), Char("\n"), Ctrl("c"), Ctrl("c"), Char("o")>>,
     <<Char("z"), Char("x"), Ctrl("c"), Named("Up")>>,
     <<Char("x"), Char("\n")>>}

\* The keys among a sequence of events, in order.
RECURSIVE KeysOf(_)
KeysOf(events) ==
    IF events = <<>> THEN <<>>
    ELSE (IF Head(events).event = "Key" THEN <<Head(events).key>> ELSE <<>>)
         \o KeysOf(Tail(events))

\* StateFsm::event
event(self, ev) ==
    IF ev.event = "Tick" THEN on_tick(self) ELSE on_key(self, ev.key)

\* run_ui up to block_on (mod.rs:143-216): StateFsm::new has sent the first
\* Tick (update_tick; the picker asks for no ticking), the resize task and the
\* key thread are started.
\* update_tick that sends no Tick of its own.
update_tick_silent == <<>>

\* StateFsm::update_tick, called by StateFsm::new (mod.rs:94) before any
\* other sender exists: the picker requires no ticking (file/mod.rs:238-240),
\* so no task is spawned, and one Tick is sent into the empty channel.
update_tick == <<FsmTick>>

InitLoop ==
    /\ fs \in PickerTrees
    /\ file_items = FileList_new(fs).file_items
    /\ file_keys = FileList_new(fs).file_keys
    /\ file_list = FileList_new(fs).file_list
    /\ indexed = {}
    /\ exclude_patterns = {}
    /\ exclude_exceptions = {}
    /\ exclude_explicit = {}
    /\ highlight = 0
    /\ phase = "picker"
    /\ memo = <<>>
    /\ last_op = "None"
    /\ panicked = FALSE
    /\ to_visit = <<>>
    /\ file_stream = <<>>
    /\ dest_dirs = {}
    /\ dest_files = <<>>
    /\ copy_pc = "idle"
    /\ mode = ModeList
    /\ aborted = FALSE
    /\ stdin \in KeyScripts
    /\ channel = update_tick
    /\ arrived = update_tick
    /\ handled = <<>>
    /\ loop_pc = "start"
    /\ terminal = "untouched"
    /\ resizes = 0
    /\ NoLayout
    /\ NoQueries
    /\ NoFsm
    /\ NoWalk
    /\ NoConfig

\* The receiver is alive until the future given to block_on completes.
ReceiverAlive == loop_pc \in {"start", "recv", "draw", "exit"} /\ ~panicked

\* A key thread that gives the key to the screen itself.
KeyThreadSend_calls_on_key ==
    /\ ReceiverAlive
    /\ stdin # <<>>
    /\ StoreUi(on_key(PickerUi, Head(stdin)).self)
    /\ stdin' = Tail(stdin)
    /\ UNCHANGED <<phase, memo, last_op, panicked, copy_vars, channel, arrived,
                   handled, loop_pc, terminal, resizes, layout_vars, query_vars,
                   fsm_vars, walk_vars, config_vars>>

\* The key thread (mod.rs:208-216) reads a key and sends it; blocking_send
\* waits while the channel is full.
KeyThreadSend ==
    /\ ReceiverAlive
    /\ stdin # <<>>
    /\ Len(channel) < ChannelCapacity
    /\ channel' = Append(channel, FsmKey(Head(stdin)))
    /\ arrived' = Append(arrived, FsmKey(Head(stdin)))
    /\ stdin' = Tail(stdin)
    /\ UNCHANGED <<fl_vars, ui_vars, phase, memo, last_op, panicked, copy_vars,
                   handled, loop_pc, terminal, resizes, layout_vars, query_vars, fsm_vars, walk_vars, config_vars>>

\* The key thread finds the channel closed: the key it read is lost and the
\* thread ends.
KeyThreadHangUp ==
    /\ ~ReceiverAlive
    /\ stdin # <<>>
    /\ stdin' = <<>>
    /\ UNCHANGED <<fl_vars, ui_vars, phase, memo, last_op, panicked, copy_vars,
                   channel, arrived, handled, loop_pc, terminal, resizes,
                   layout_vars, query_vars, fsm_vars, walk_vars, config_vars>>

\* The resize task (mod.rs:173-193) sees a new size and sends a Tick; send
\* waits while the channel is full.
ResizeTick ==
    /\ ReceiverAlive
    /\ resizes < MaxResizes
    /\ Len(channel) < ChannelCapacity
    /\ resizes' = resizes + 1
    /\ channel' = Append(channel, FsmTick)
    /\ arrived' = Append(arrived, FsmTick)
    /\ UNCHANGED <<fl_vars, ui_vars, phase, memo, last_op, panicked, copy_vars,
                   stdin, handled, loop_pc, terminal, layout_vars, query_vars, fsm_vars, walk_vars, config_vars>>

\* mod.rs:227: the terminal is cleared before the loop.
LoopStart ==
    /\ ~panicked
    /\ loop_pc = "start"
    /\ terminal' = "cleared"
    /\ loop_pc' = "recv"
    /\ UNCHANGED <<fl_vars, ui_vars, phase, memo, last_op, panicked, copy_vars,
                   stdin, channel, arrived, handled, resizes, layout_vars, query_vars, fsm_vars, walk_vars, config_vars>>

\* LoopRecv that takes the newest event of the channel.
LoopRecv_newest_first ==
    /\ ~panicked
    /\ loop_pc = "recv"
    /\ channel # <<>>
    /\ LET ev == channel[Len(channel)]
           r  == event(PickerUi, ev)
       IN  /\ StoreUi(r.self)
           /\ panicked' = r.panic
           /\ last_op' = r.reaction
           /\ handled' = Append(handled, ev)
           /\ loop_pc' = IF r.reaction = "Exit" THEN "exit" ELSE "draw"
           /\ phase' = IF r.reaction = "Exit" THEN "exited" ELSE phase
    /\ channel' = SubSeq(channel, 1, Len(channel) - 1)
    /\ UNCHANGED <<memo, copy_vars, stdin, arrived, terminal, resizes, layout_vars, query_vars, fsm_vars, walk_vars, config_vars>>

\* LoopRecv that has the screen drawn only after a key.
LoopRecv_draws_after_keys ==
    /\ ~panicked
    /\ loop_pc = "recv"
    /\ channel # <<>>
    /\ LET ev == Head(channel)
           r  == event(PickerUi, ev)
       IN  /\ StoreUi(r.self)
           /\ panicked' = r.panic
           /\ last_op' = r.reaction
           /\ handled' = Append(handled, ev)
           /\ loop_pc' = IF r.reaction = "Exit" THEN "exit"
                         ELSE IF ev.event = "Key" THEN "draw"
                         ELSE "recv"
           /\ phase' = IF r.reaction = "Exit" THEN "exited" ELSE phase
    /\ channel' = Tail(channel)
    /\ UNCHANGED <<memo, copy_vars, stdin, arrived, terminal, resizes, layout_vars, query_vars, fsm_vars, walk_vars, config_vars>>

\* LoopRecv that goes on to draw whatever the reaction is.
LoopRecv_ignores_exit ==
    /\ ~panicked
    /\ loop_pc = "recv"
    /\ channel # <<>>
    /\ LET ev == Head(channel)
           r  == event(PickerUi, ev)
       IN  /\ StoreUi(r.self)
           /\ panicked' = r.panic
           /\ last_op' = r.reaction
           /\ handled' = Append(handled, ev)
           /\ loop_pc' = "draw"
           /\ phase' = IF r.reaction = "Exit" THEN "exited" ELSE phase
    /\ channel' = Tail(channel)
    /\ UNCHANGED <<memo, copy_vars, stdin, arrived, terminal, resizes, layout_vars, query_vars, fsm_vars, walk_vars, config_vars>>

\* mod.rs:228-233: recv hands over the oldest event, StateFsm::event gives it
\* to the screen, and Exit breaks the loop.  last_op is here the reaction.
LoopRecv ==
    /\ ~panicked
    /\ loop_pc = "recv"
    /\ channel # <<>>
    /\ LET ev == Head(channel)
           r  == event(PickerUi, ev)
       IN  /\ StoreUi(r.self)
           /\ panicked' = r.panic
           /\ last_op' = r.reaction
           /\ handled' = Append(handled, ev)
           /\ loop_pc' = IF r.reaction = "Exit" THEN "exit" ELSE "draw"
           /\ phase' = IF r.reaction = "Exit" THEN "exited" ELSE phase
    /\ channel' = Tail(channel)
    /\ UNCHANGED <<memo, copy_vars, stdin, arrived, terminal, resizes, layout_vars, query_vars, fsm_vars, walk_vars, config_vars>>

\* mod.rs:234-239: the screen is drawn; a failure to draw is printed and the
\* loop goes on.
LoopDraw ==
    /\ ~panicked
    /\ loop_pc = "draw"
    /\ \E drawn \in BOOLEAN : terminal' = IF drawn THEN "drawn" ELSE terminal
    /\ draws' = draws + 1
    /\ loop_pc' = "recv"
    /\ UNCHANGED <<fl_vars, ui_vars, phase, memo, last_op, panicked, copy_vars,
                   stdin, channel, arrived, handled, resizes, layout_vars,
                   query_vars, current_state, timers, walk_vars, config_vars>>

\* mod.rs:241-243: after the loop the terminal is cleared, the receiver is
\* dropped with whatever the channel still holds, and run_ui returns.
LoopExit ==
    /\ ~panicked
    /\ loop_pc = "exit"
    /\ terminal' = "cleared"
    /\ channel' = <<>>
    /\ loop_pc' = "returned"
    /\ UNCHANGED <<fl_vars, ui_vars, phase, memo, last_op, panicked, copy_vars,
                   stdin, arrived, handled, resizes, layout_vars, query_vars, fsm_vars, walk_vars, config_vars>>

NextLoop ==
    \/ KeyThreadSend
    \/ KeyThreadHangUp
    \/ ResizeTick
    \/ LoopStart
    \/ LoopRecv
    \/ LoopDraw
    \/ LoopExit

SpecLoop == InitLoop /\ [][NextLoop]_vars

\* ------------------------------------------------------------------------
\* StateFsm with screens that replace each other (src/ui.rs): a reaction
\* ChangeState(state) makes `state` the current screen and calls
\* update_tick, which aborts the tick task of the old screen, spawns one
\* for the new screen if it requires ticking, and sends a Tick.
\*
\* A tick task (ui.rs:101-112) sleeps, then sends a Tick, for ever.  It is
\* "sleeping" while suspended in sleep(duration).await and "polling" while
\* a worker thread runs it towards the send.  JoinHandle::abort drops a
\* suspended task at once; a task that a worker is running is dropped only
\* when its poll returns, so it may still complete the send it was about
\* to make ("cancelled polling").  Every event carries, for the properties
\* only, the number of the tick task that sent it (0: no tick task).
\* ------------------------------------------------------------------------

\* The Ticks the tick tasks send in one run.
MaxTicks == 2

TimerTick(g) == [event |-> "Tick", key |-> Named("none"), timer |-> g]
SwitchKey(key) == [event |-> "Key", key |-> key, timer |-> 0]

\* A screen of this model: its number and whether require_ticking returns
\* Some(duration).
Screen(id, ticking) == [id |-> id, ticking |-> ticking]

\* The reactions of the screens: on_tick gives None; on_key gives
\* ChangeState for n, Exit for Ctrl-C and None for another key.
screen_reaction(ev) ==
    IF ev.event = "Tick" THEN "None"
    ELSE IF ev.key = Char("n") THEN "ChangeState"
    ELSE IF ev.key = Ctrl("c") THEN "Exit"
    ELSE "None"

\* What the user types.
SwitchScripts ==
    {<<Char("x"), Char("n"), Char("x")>>,
     <<Char("n"), Ctrl("c")>>,
     <<Char("x"), Ctrl("c"), Char("n")>>}

\* JoinHandle::abort on tick_handle, the task spawned last, if there is one.
abort(tasks) ==
    IF tasks = <<>> THEN tasks
    ELSE [tasks EXCEPT ![Len(tasks)].status =
              IF @ = "sleeping" THEN "cancelled"
              ELSE IF @ = "polling" THEN "cancelled polling"
              ELSE @]

\* The tick task update_tick spawns for a screen.
spawn_tick(tasks, screen) ==
    IF screen.ticking
    THEN Append(tasks, [screen |-> screen.id, status |-> "sleeping"])
    ELSE tasks

\* The Ticks in a sequence of events that tick tasks sent.
RECURSIVE TimerTicksIn(_)
TimerTicksIn(events) ==
    IF events = <<>> THEN 0
    ELSE (IF Head(events).timer # 0 THEN 1 ELSE 0) + TimerTicksIn(Tail(events))

\* run_ui (ui.rs:121-145): StateFsm::new has run update_tick for the
\* starting screen, outside of the runtime.
InitSwitch ==
    /\ fs = FsEmpty
    /\ NoFileList
    /\ phase = "fsm"
    /\ last_op = "None"
    /\ panicked = FALSE
    /\ to_visit = <<>>
    /\ file_stream = <<>>
    /\ dest_dirs = {}
    /\ dest_files = <<>>
    /\ copy_pc = "idle"
    /\ mode = ModeList
    /\ aborted = FALSE
    /\ stdin \in SwitchScripts
    /\ channel = <<TimerTick(0)>>
    /\ arrived = <<TimerTick(0)>>
    /\ handled = <<>>
    /\ loop_pc = "start"
    /\ terminal = "untouched"
    /\ resizes = 0
    /\ NoLayout
    /\ NoQueries
    /\ \E ticking \in BOOLEAN :
          /\ current_state = Screen(0, ticking)
          /\ timers = spawn_tick(<<>>, Screen(0, ticking))
    /\ draws = 0
    /\ NoWalk
    /\ NoConfig

\* What no step of a tick task or of the key thread writes.
SwitchProducerFrame ==
    UNCHANGED <<fl_vars, ui_vars, phase, memo, last_op, panicked, copy_vars,
                handled, loop_pc, terminal, resizes, layout_vars, query_vars,
                current_state, draws, walk_vars, config_vars>>

\* The key thread (ui.rs:160-168).
SwitchKeySend ==
    /\ ReceiverAlive
    /\ stdin # <<>>
    /\ Len(channel) < ChannelCapacity
    /\ channel' = Append(channel, SwitchKey(Head(stdin)))
    /\ arrived' = Append(arrived, SwitchKey(Head(stdin)))
    /\ stdin' = Tail(stdin)
    /\ UNCHANGED timers
    /\ SwitchProducerFrame

\* The sleep of a tick task is over and a worker begins to poll the task.
TimerWake(g) ==
    /\ ReceiverAlive
    /\ timers[g].status = "sleeping"
    /\ TimerTicksIn(arrived) < MaxTicks
    /\ timers' = [timers EXCEPT ![g].status = "polling"]
    /\ UNCHANGED <<stdin, channel, arrived>>
    /\ SwitchProducerFrame

\* event_tx.send(FsmEvent::Tick).await of a task that is being polled; the
\* task then sleeps again, or is dropped if it was aborted meanwhile.
TimerSend(g) ==
    /\ ReceiverAlive
    /\ timers[g].status \in {"polling", "cancelled polling"}
    /\ Len(channel) < ChannelCapacity
    /\ channel' = Append(channel, TimerTick(g))
    /\ arrived' = Append(arrived, TimerTick(g))
    /\ timers' = [timers EXCEPT ![g].status =
                      IF @ = "polling" THEN "sleeping" ELSE "cancelled"]
    /\ UNCHANGED stdin
    /\ SwitchProducerFrame

\* The poll of an aborted task returns before it has sent: the task is
\* dropped.
TimerDropped(g) ==
    /\ timers[g].status = "cancelled polling"
    /\ timers' = [timers EXCEPT ![g].status = "cancelled"]
    /\ UNCHANGED <<stdin, channel, arrived>>
    /\ SwitchProducerFrame

\* ui.rs:179-184 and StateFsm::event (ui.rs:72-90): the oldest event goes
\* to the current screen; ChangeState installs the new screen and enters
\* update_tick, whose first statement aborts the old tick task.
SwitchRecv ==
    /\ ~panicked
    /\ loop_pc = "recv"
    /\ channel # <<>>
    /\ LET ev       == Head(channel)
           reaction == screen_reaction(ev)
       IN  /\ handled' = Append(handled, [ev |-> ev, to |-> current_state.id])
           /\ last_op' = reaction
           /\ IF reaction = "ChangeState"
              THEN /\ \E ticking \in BOOLEAN :
                        current_state' = Screen(current_state.id + 1, ticking)
                   /\ timers' = abort(timers)
                   /\ loop_pc' = "spawn"
              ELSE /\ UNCHANGED <<current_state, timers>>
                   /\ loop_pc' = IF reaction = "Exit" THEN "exit" ELSE "draw"
    /\ channel' = Tail(channel)
    /\ UNCHANGED <<fl_vars, ui_vars, phase, memo, panicked, copy_vars, stdin,
                   arrived, terminal, resizes, layout_vars, query_vars, draws, walk_vars, config_vars>>

\* update_tick, ui.rs:100-114: the tick task of the new screen is spawned.
SwitchSpawn ==
    /\ ~panicked
    /\ loop_pc = "spawn"
    /\ timers' = spawn_tick(timers, current_state)
    /\ loop_pc' = "send"
    /\ UNCHANGED <<fl_vars, ui_vars, phase, memo, last_op, panicked, copy_vars,
                   stdin, channel, arrived, handled, terminal, resizes,
                   layout_vars, query_vars, current_state, draws, walk_vars, config_vars>>

\* update_tick, ui.rs:115: blocking_send is called on the thread that runs
\* block_on (ui.rs:174), and tokio panics when asked to block a thread
\* that drives a runtime.  The panic unwinds run_ui: the receiver is
\* dropped with what the channel holds.
SwitchBlockingSend ==
    /\ ~panicked
    /\ loop_pc = "send"
    /\ panicked' = TRUE
    /\ channel' = <<>>
    /\ UNCHANGED <<fl_vars, ui_vars, phase, memo, last_op, copy_vars, stdin,
                   arrived, handled, loop_pc, terminal, resizes, layout_vars,
                   query_vars, fsm_vars, walk_vars, config_vars>>

NextSwitch ==
    \/ SwitchKeySend
    \/ \E g \in DOMAIN timers : TimerWake(g)
    \/ \E g \in DOMAIN timers : TimerSend(g)
    \/ \E g \in DOMAIN timers : TimerDropped(g)
    \/ LoopStart
    \/ SwitchRecv
    \/ SwitchSpawn
    \/ SwitchBlockingSend
    \/ LoopDraw
    \/ LoopExit

SpecSwitch == InitSwitch /\ [][NextSwitch]_vars

\* ------------------------------------------------------------------------
\* run_ui from StateFsm::new on (src/ui/mod.rs:87-139, 160-243), for a
\* screen whose require_ticking may return Some(duration): update_tick
\* spawns the tick task on the runtime's workers and then sends the first
\* Tick from the thread that will run the loop.
\* ------------------------------------------------------------------------

\* What the user types.
StartupScripts == {script \in KeyScripts : Len(script) <= 4}

\* The Ticks in a sequence of events.
RECURSIVE TicksIn(_)
TicksIn(events) ==
    IF events = <<>> THEN 0
    ELSE (IF Head(events).event = "Tick" THEN 1 ELSE 0) + TicksIn(Tail(events))

\* update_tick has spawned the tick task, if the screen asks for one
\* (mod.rs:122-135), and is about to send the first Tick (mod.rs:136); the
\* channel is empty and its receiver has not been polled yet.
InitStartup ==
    /\ fs \in PickerTrees
    /\ file_items = FileList_new(fs).file_items
    /\ file_keys = FileList_new(fs).file_keys
    /\ file_list = FileList_new(fs).file_list
    /\ indexed = {}
    /\ exclude_patterns = {}
    /\ exclude_exceptions = {}
    /\ exclude_explicit = {}
    /\ highlight = 0
    /\ phase = "picker"
    /\ memo = <<>>
    /\ last_op = "None"
    /\ panicked = FALSE
    /\ to_visit = <<>>
    /\ file_stream = <<>>
    /\ dest_dirs = {}
    /\ dest_files = <<>>
    /\ copy_pc = "idle"
    /\ mode = ModeList
    /\ aborted = FALSE
    /\ stdin \in StartupScripts
    /\ channel = <<>>
    /\ arrived = <<>>
    /\ handled = <<>>
    /\ loop_pc = "new"
    /\ terminal = "untouched"
    /\ resizes = 0
    /\ NoLayout
    /\ NoQueries
    /\ \E ticking \in BOOLEAN :
          /\ current_state = Screen(0, ticking)
          /\ timers = spawn_tick(<<>>, Screen(0, ticking))
    /\ draws = 0
    /\ NoWalk
    /\ NoConfig

\* The tick task (mod.rs:124-133): its sleep is over and it sends a Tick;
\* send waits while the channel is full.  The task runs from the moment it
\* is spawned.
TickTaskSend ==
    /\ loop_pc = "new" \/ ReceiverAlive
    /\ \E g \in DOMAIN timers : timers[g].status = "sleeping"
    /\ Len(channel) < ChannelCapacity
    /\ TicksIn(arrived) < ChannelCapacity + 1
    /\ channel' = Append(channel, FsmTick)
    /\ arrived' = Append(arrived, FsmTick)
    /\ UNCHANGED <<fl_vars, ui_vars, phase, memo, last_op, panicked, copy_vars,
                   stdin, handled, loop_pc, terminal, resizes, layout_vars,
                   query_vars, fsm_vars, walk_vars, config_vars>>

\* mod.rs:136: event_tx.blocking_send(FsmEvent::Tick) on the thread of
\* run_ui, which waits while the channel is full; StateFsm::new then
\* returns and run_ui goes on to spawn the other senders and to block_on.
NewBlockingSend ==
    /\ ~panicked
    /\ loop_pc = "new"
    /\ Len(channel) < ChannelCapacity
    /\ channel' = Append(channel, FsmTick)
    /\ arrived' = Append(arrived, FsmTick)
    /\ loop_pc' = "start"
    /\ UNCHANGED <<fl_vars, ui_vars, phase, memo, last_op, panicked, copy_vars,
                   stdin, handled, terminal, resizes, layout_vars,
                   query_vars, fsm_vars, walk_vars, config_vars>>

NextStartup ==
    \/ TickTaskSend
    \/ NewBlockingSend
    \/ KeyThreadSend
    \/ KeyThreadHangUp
    \/ LoopStart
    \/ LoopRecv
    \/ LoopDraw
    \/ LoopExit

SpecStartup == InitStartup /\ [][NextStartup]_vars

\* ------------------------------------------------------------------------
\* distribute (src/ui/layout.rs)
\* ------------------------------------------------------------------------

\* u16 holds 0 .. 2^16 - 1.
U16Modulus == 65536

\* The small widths given to distribute go up to this, and the sequences of
\* boxes are no longer than MaxBoxes.
MaxWidth == 4
MaxBoxes == 3

\* A Badness is a u64.  Such numbers are kept as their digits in base 10000,
\* lowest first, without leading zeros (0 is <<>>).
LimbBase == 10000

RECURSIVE big_of(_)
big_of(n) == IF n = 0 THEN <<>> ELSE <<n % LimbBase>> \o big_of(n \div LimbBase)

\* a * m + carry, for m and carry below 2^16
RECURSIVE big_mul_small(_, _, _)
big_mul_small(a, m, carry) ==
    IF a = <<>> THEN big_of(carry)
    ELSE LET v == Head(a) * m + carry
             rest == big_mul_small(Tail(a), m, v \div LimbBase)
         IN  IF rest = <<>> /\ v % LimbBase = 0 THEN <<>>
             ELSE <<v % LimbBase>> \o rest

\* a + b + carry
RECURSIVE big_add(_, _, _)
big_add(a, b, carry) ==
    IF a = <<>> /\ b = <<>> THEN big_of(carry)
    ELSE LET x == IF a = <<>> THEN 0 ELSE Head(a)
             y == IF b = <<>> THEN 0 ELSE Head(b)
             v == x + y + carry
             rest == big_add(IF a = <<>> THEN <<>> ELSE Tail(a),
                             IF b = <<>> THEN <<>> ELSE Tail(b),
                             v \div LimbBase)
         IN  IF rest = <<>> /\ v % LimbBase = 0 THEN <<>>
             ELSE <<v % LimbBase>> \o rest

\* a < b
RECURSIVE big_less(_, _)
big_less(a, b) ==
    IF Len(a) # Len(b) THEN Len(a) < Len(b)
    ELSE IF a = <<>> THEN FALSE
    ELSE IF a[Len(a)] # b[Len(b)] THEN a[Len(a)] < b[Len(b)]
    ELSE big_less(SubSeq(a, 1, Len(a) - 1), SubSeq(b, 1, Len(b) - 1))

\* std::u64::MAX = 18446744073709551615
BadnessMax == <<1615, 955, 737, 6744, 1844>>

\* u64::saturating_add
saturating_add(a, b) ==
    LET sum == big_add(a, b, 0)
    IN  IF big_less(BadnessMax, sum) THEN BadnessMax ELSE sum

\* (x as u64).pow(3), for a u16 x
pow3(x) == big_mul_small(big_mul_small(big_of(x), x, 0), x, 0)

\* VisualBox::new
VisualBox(width, height) == [width |-> width, height |-> height]

\* The sum of a field over elements[i..j] (0-based, j excluded), as a number.
RECURSIVE range_sum(_, _, _)
range_sum(widths, i, j) ==
    IF i >= j THEN 0 ELSE widths[i + 1] + range_sum(widths, i + 1, j)

\* An arithmetic result in u16: with overflow checks (a debug build) a
\* result out of range panics, without them (a release build) it wraps.
u16(value, overflow_checks) ==
    IF value >= 0 /\ value < U16Modulus THEN [panic |-> FALSE, value |-> value]
    ELSE IF overflow_checks THEN [panic |-> TRUE, value |-> 0]
    ELSE [panic |-> FALSE, value |-> value % U16Modulus]

Widths(boxes) == [k \in 1..Len(boxes) |-> boxes[k].width]

\* The closure compute_badness of distribute
compute_badness(w, boxes, i, j, overflow_checks) ==
    LET total_width == u16(range_sum(Widths(boxes), i, j), overflow_checks)
    IN  IF total_width.panic THEN [panic |-> TRUE, badness |-> BadnessMax]
        ELSE IF total_width.value > w
        THEN [panic |-> FALSE, badness |-> BadnessMax]
        ELSE [panic |-> FALSE, badness |-> pow3(w - total_width.value)]

Last(v) == v[Len(v)]
Pop(v) == SubSeq(v, 1, Len(v) - 1)
SetLast(v, x) == [v EXCEPT ![Len(v)] = x]

\* The while loop over start_stack (layout.rs:57-110), from one state of its
\* stacks and memos to the state that ends it.  An Option is <<>> (None) or
\* <<x>> (Some(x)).
RECURSIVE breaks_loop(_, _, _, _)
breaks_loop(w, boxes, overflow_checks, st) ==
    IF st.panic \/ st.start_stack = <<>> THEN st
    ELSE
        LET start  == Last(st.start_stack)
            length == Last(st.length_stack)
            popped == [st EXCEPT !.start_stack = Pop(@), !.length_stack = Pop(@)]
            newline_before == start + length
        IN  IF newline_before # Len(boxes)
               /\ st.badness_memo[newline_before + 1] = <<>>
            THEN breaks_loop(w, boxes, overflow_checks,
                    [popped EXCEPT
                        !.start_stack = @ \o <<start, newline_before>>,
                        !.length_stack = @ \o <<length, 1>>,
                        !.best_badness_stack = Append(@, BadnessMax),
                        !.best_break_stack = Append(@, 1)])
            ELSE
                LET suffix_badness ==
                        IF newline_before = Len(boxes) THEN <<>>
                        ELSE st.badness_memo[newline_before + 1][1]
                    base == compute_badness(w, boxes, start,
                                            newline_before, overflow_checks)
                    badness == saturating_add(base.badness, suffix_badness)
                    better == big_less(badness, Last(st.best_badness_stack))
                    noted == IF better
                             THEN [popped EXCEPT
                                      !.best_badness_stack = SetLast(@, badness),
                                      !.best_break_stack = SetLast(@, newline_before)]
                             ELSE popped
                IN  IF base.panic THEN [st EXCEPT !.panic = TRUE]
                    ELSE IF newline_before = Len(boxes)
                    THEN breaks_loop(w, boxes, overflow_checks,
                            [noted EXCEPT
                                !.best_badness_stack = Pop(@),
                                !.best_break_stack = Pop(@),
                                !.badness_memo[start + 1] =
                                    <<Last(noted.best_badness_stack)>>,
                                !.break_memo[start + 1] =
                                    <<Last(noted.best_break_stack)>>])
                    ELSE breaks_loop(w, boxes, overflow_checks,
                            [noted EXCEPT
                                !.start_stack = Append(@, start),
                                !.length_stack = Append(@, length + 1)])

\* layout.rs:40-55: the memos and stacks the loop starts from.
breaks_start(boxes) ==
    [break_memo         |-> [k \in 1..Len(boxes) |-> <<>>],
     badness_memo       |-> [k \in 1..Len(boxes) |-> <<>>],
     start_stack        |-> <<0>>,
     length_stack       |-> <<1>>,
     best_badness_stack |-> <<BadnessMax>>,
     best_break_stack   |-> <<1>>,
     panic              |-> FALSE]

\* layout.rs:113-122: following break_memo from 0.  The loop has no end if
\* it has not reached elements.len() after that many steps.
RECURSIVE follow_breaks(_, _, _, _, _)
follow_breaks(break_memo, len, head, splits, fuel) ==
    IF head >= len THEN [diverges |-> FALSE, splits |-> splits]
    ELSE IF fuel = 0 THEN [diverges |-> TRUE, splits |-> splits]
    ELSE LET next_break == break_memo[head + 1][1]
         IN  follow_breaks(break_memo, len, next_break,
                           Append(splits, next_break), fuel - 1)

RECURSIVE max_height(_)
max_height(line_elements) ==
    IF Len(line_elements) = 1 THEN line_elements[1].height
    ELSE LET rest == max_height(Tail(line_elements))
         IN  IF line_elements[1].height >= rest THEN line_elements[1].height
             ELSE rest

\* layout.rs:139-143: the boxes of one line, from `filled`.
RECURSIVE place_line(_, _, _, _, _, _)
place_line(line_elements, whitespace, y, filled, acc, overflow_checks) ==
    IF line_elements = <<>> THEN [panic |-> FALSE, positions |-> acc]
    ELSE LET step == u16(Head(line_elements).width + min(2, whitespace),
                         overflow_checks)
             next == u16(filled + step.value, overflow_checks)
         IN  IF step.panic \/ next.panic
             THEN [panic |-> TRUE, positions |-> Append(acc, <<filled, y>>)]
             ELSE place_line(Tail(line_elements), whitespace, y, next.value,
                             Append(acc, <<filled, y>>), overflow_checks)

\* layout.rs:130-146: the lines, one split after the other.
RECURSIVE place_lines(_, _, _, _, _, _, _)
place_lines(w, boxes, splits, i, y, acc, overflow_checks) ==
    IF i >= Len(splits) THEN [panic |-> FALSE, positions |-> acc]
    ELSE
        LET split_start == IF i = 0 THEN 0 ELSE splits[i]
            split_end == splits[i + 1]
        IN  IF split_start >= split_end \/ split_end > Len(boxes)
            THEN [panic |-> TRUE, positions |-> acc]
            ELSE
                LET line_elements == SubSeq(boxes, split_start + 1, split_end)
                    line_height == max_height(line_elements)
                    content_width ==
                        u16(range_sum(Widths(boxes), split_start, split_end),
                            overflow_checks)
                    room == u16(w - content_width.value, overflow_checks)
                    whitespace == room.value \div (split_end - split_start)
                    line == place_line(line_elements, whitespace, y, 0, acc,
                                       overflow_checks)
                    next_y == u16(y + line_height, overflow_checks)
                IN  IF content_width.panic \/ room.panic \/ line.panic
                       \/ next_y.panic
                    THEN [panic |-> TRUE, positions |-> acc]
                    ELSE place_lines(w, boxes, splits, i + 1,
                                     next_y.value, line.positions, overflow_checks)

\* distribute
distribute(width, boxes, overflow_checks) ==
    LET st == breaks_loop(width, boxes, overflow_checks, breaks_start(boxes))
        followed == follow_breaks(st.break_memo, Len(boxes), 0, <<>>,
                                  Len(boxes) + 1)
        placed == place_lines(width, boxes, followed.splits, 0, 0, <<>>,
                              overflow_checks)
    IN  IF st.panic THEN [panic |-> TRUE, diverges |-> FALSE, positions |-> <<>>]
        ELSE IF followed.diverges
        THEN [panic |-> FALSE, diverges |-> TRUE, positions |-> <<>>]
        ELSE [panic |-> placed.panic, diverges |-> FALSE,
              positions |-> IF placed.panic THEN <<>> ELSE placed.positions]

\* All sequences of 1 .. n elements of a set.
SeqsUpTo(S, n) == UNION {[1..k -> S] : k \in 1..n}

\* The calls made of distribute: small widths with short sequences of small
\* boxes, and a full-width u16 with boxes that are each no wider.
LayoutInputs ==
    {[max_width |-> w, elements |-> e] :
        w \in 1..MaxWidth,
        e \in SeqsUpTo({VisualBox(bw, bh) : bw \in 0..MaxWidth, bh \in 1..2},
                       MaxBoxes)}
    \cup
    {[max_width |-> U16Modulus - 1, elements |-> e] :
        e \in SeqsUpTo({VisualBox(bw, 1) : bw \in {40000, 51071}}, MaxBoxes)}

\* A caller is about to call distribute.
InitLayout ==
    /\ fs = FsEmpty
    /\ NoFileList
    /\ phase = "layout"
    /\ last_op = "new"
    /\ panicked = FALSE
    /\ to_visit = <<>>
    /\ file_stream = <<>>
    /\ dest_dirs = {}
    /\ dest_files = <<>>
    /\ copy_pc = "idle"
    /\ mode = ModeList
    /\ aborted = FALSE
    /\ NoLoop
    /\ NoQueries
    /\ NoFsm
    /\ NoWalk
    /\ NoConfig
    /\ \E input \in LayoutInputs :
          /\ max_width = input.max_width
          /\ elements = input.elements
    /\ positions = <<>>

\* The call: it returns the positions, panics, or does not return.
Distribute ==
    /\ last_op = "new"
    /\ phase = "layout"
    /\ \E overflow_checks \in BOOLEAN :
          LET r == distribute(max_width, elements, overflow_checks)
          IN  /\ positions' = r.positions
              /\ panicked' = r.panic
              /\ last_op' = IF r.panic THEN "distribute panicked"
                            ELSE IF r.diverges THEN "distribute does not return"
                            ELSE "distribute returned"
    /\ UNCHANGED <<fl_vars, ui_vars, phase, memo, copy_vars, run_vars, query_vars, fsm_vars, walk_vars, max_width,
                   elements, config_vars>>

NextLayout == Distribute

SpecLayout == InitLayout /\ [][NextLayout]_vars

\* ------------------------------------------------------------------------
\* boyl make: the picker, then the filtered walk feeding recursive_copy
\* (src/cmd/make.rs:118-201)
\* ------------------------------------------------------------------------

\* The directories `boyl make` is run on.
MakeTrees == {FsNested, FsDirFirst}

\* make.rs:118-120: the picker is opened on the directory to capture; the
\* template's directory is absent or left over from an earlier run.
InitMake ==
    /\ fs \in MakeTrees
    /\ file_items = FileList_new(fs).file_items
    /\ file_keys = FileList_new(fs).file_keys
    /\ file_list = FileList_new(fs).file_list
    /\ indexed = {}
    /\ exclude_patterns = {}
    /\ exclude_exceptions = {}
    /\ exclude_explicit = {}
    /\ highlight = 0
    /\ phase = "picker"
    /\ memo = <<>>
    /\ last_op = "new"
    /\ panicked = FALSE
    /\ to_visit = <<>>
    /\ file_stream = <<>>
    /\ dest_dirs \in {{}, {<<>>}}
    /\ dest_files = <<>>
    /\ copy_pc = "idle"
    /\ mode = ModeList
    /\ aborted = FALSE
    /\ NoLoop
    /\ NoLayout
    /\ NoQueries
    /\ NoFsm
    /\ NoWalk
    /\ NoConfig

\* make.rs:122-176: the picker was left with Enter; the template's directory
\* is created (an existing one is erased first, at the user's word), and the
\* walk starts at the captured directory with an empty files_memo.
MakeCreateTarget ==
    /\ InPicker
    /\ ~aborted
    /\ phase' = "make"
    /\ memo' = <<>>
    /\ dest_dirs' = {<<>>}
    /\ dest_files' = <<>>
    /\ to_visit' = << <<>> >>
    /\ file_stream' = <<>>
    /\ copy_pc' = "copying"
    /\ last_op' = "exit"
    /\ UNCHANGED <<fl_vars, panicked, ui_vars, run_vars, layout_vars, query_vars, fsm_vars, walk_vars, config_vars>>

\* MakeCopyEntry without the filter: every entry of the stream is copied.
MakeCopyEntry_copies_all ==
    /\ ~panicked
    /\ phase = "make"
    /\ copy_pc = "copying"
    /\ file_stream # <<>>
    /\ LET file == Head(file_stream)
           r    == copy_from_to(fs, Dest, file, file)
       IN  /\ copies' = Append(copies, file)
           /\ IF r.ok
              THEN /\ dest_dirs' = r.dst.dirs
                   /\ dest_files' = r.dst.files
                   /\ last_op' = "copied"
                   /\ UNCHANGED panicked
              ELSE /\ dest_dirs' = {}
                   /\ dest_files' = <<>>
                   /\ last_op' = "copy failed"
                   /\ panicked' = TRUE
    /\ file_stream' = Tail(file_stream)
    /\ UNCHANGED <<fl_vars, phase, memo, to_visit, copy_pc, ui_vars, run_vars,
                   layout_vars, query_vars, fsm_vars, yielded, config_vars>>

\* One turn of the loop of recursive_copy behind make's filter_map: the next
\* entry is asked of is_included_memoized_async, and copied if included.
MakeCopyEntry ==
    /\ ~panicked
    /\ phase = "make"
    /\ copy_pc = "copying"
    /\ file_stream # <<>>
    /\ LET file == Head(file_stream)
           q    == is_included_memoized_async(FL, file, memo)
           r    == copy_from_to(fs, Dest, file, file)
       IN  /\ memo' = q.memo
           /\ copies' = IF q.answer THEN Append(copies, file) ELSE copies
           /\ IF ~q.answer
              THEN /\ last_op' = "filtered out"
                   /\ UNCHANGED <<dest_dirs, dest_files, panicked>>
              ELSE IF r.ok
              THEN /\ dest_dirs' = r.dst.dirs
                   /\ dest_files' = r.dst.files
                   /\ last_op' = "copied"
                   /\ UNCHANGED panicked
              ELSE /\ dest_dirs' = {}
                   /\ dest_files' = <<>>
                   /\ last_op' = "copy failed"
                   /\ panicked' = TRUE
    /\ file_stream' = Tail(file_stream)
    /\ UNCHANGED <<fl_vars, phase, to_visit, copy_pc, ui_vars, run_vars,
                   layout_vars, query_vars, fsm_vars, yielded, config_vars>>

NextMake ==
    \/ GoUp
    \/ GoDown
    \/ ToggleFolder
    \/ ToggleExcludeFile
    \/ ExcludePattern
    \/ MakeCreateTarget
    \/ WalkLevel
    \/ MakeCopyEntry
    \/ CopyDone

SpecMake == InitMake /\ [][NextMake]_vars

\* ------------------------------------------------------------------------
\* The copy of `boyl make` by itself (make.rs:168-201), on disks where
\* fs::read_dir or metadata() can fail for some entries, from the state in
\* which the target directory has just been created.
\* ------------------------------------------------------------------------

\* What fails on the disk: nothing; metadata of the file s/c; the listing
\* of the directory s/d; metadata of the file a.
WalkFaults ==
    {[read_fails |-> {}, metadata_fails |-> {}],
     [read_fails |-> {}, metadata_fails |-> {<<"s", "c">>}],
     [read_fails |-> {<<"s", "d">>}, metadata_fails |-> {}],
     [read_fails |-> {}, metadata_fails |-> {<<"a">>}]}

\* a, s/{c, d/{e}} in every read order, with every one of these faults.
WalkTrees ==
    {[ls |-> tree.ls, data |-> tree.data,
      read_fails |-> faults.read_fails, metadata_fails |-> faults.metadata_fails] :
        tree \in ReadOrders(FsNested), faults \in WalkFaults}

\* FileLists the picker hands over: untouched, the first or the second
\* entry of the base directory excluded, the pattern "?" registered.
WalkFileLists(disk) ==
    LET new == FileList_new(disk)
    IN  {new, toggle_exclude_file(new), toggle_exclude_file(go_down(new)),
         exclude_pattern(new, <<"?">>).self}

InitWalk ==
    /\ fs \in WalkTrees
    /\ \E self \in WalkFileLists(fs) :
          /\ file_items = self.file_items
          /\ file_keys = self.file_keys
          /\ file_list = self.file_list
          /\ indexed = self.indexed
          /\ exclude_patterns = self.exclude_patterns
          /\ exclude_exceptions = self.exclude_exceptions
          /\ exclude_explicit = self.exclude_explicit
          /\ highlight = self.highlight
    /\ phase = "make"
    /\ memo = <<>>
    /\ last_op = "exit"
    /\ panicked = FALSE
    /\ to_visit = << <<>> >>
    /\ file_stream = <<>>
    /\ dest_dirs = {<<>>}
    /\ dest_files = <<>>
    /\ copy_pc = "copying"
    /\ mode = ModeList
    /\ aborted = FALSE
    /\ NoLoop
    /\ NoLayout
    /\ NoQueries
    /\ NoFsm
    /\ NoWalk
    /\ NoConfig

NextWalk ==
    \/ WalkLevel
    \/ MakeCopyEntry
    \/ CopyDone

\* block_on (make.rs:169) drives the stream and the copy until
\* recursive_copy returns: a step that can be taken is taken.
SpecWalk == InitWalk /\ [][NextWalk]_vars /\ WF_vars(NextWalk)

\* ------------------------------------------------------------------------
\* boyl make from the moment run_ui returns (src/cmd/make.rs:120-216): exit
\* on an aborted picker, the template's directory, the copy, and the
\* registration of the template.
\* ------------------------------------------------------------------------

\* The key of the template being made, and of one made earlier.
NewTemplate == "made"
OtherTemplate == "other"

\* FileLists the picker can be left with: untouched; the first entry
\* excluded; the pattern "?" registered; the second entry opened, "?"
\* registered and the first or the second of its children shown made an
\* exception.
CaptureFileLists(disk) ==
    LET new     == FileList_new(disk)
        opened  == exclude_pattern(toggle_folder(go_down(new)), <<"?">>).self
        third   == go_down(opened)
        fourth  == go_down(third)
    IN  {new, toggle_exclude_file(new), exclude_pattern(new, <<"?">>).self,
         toggle_exclude_file(third), toggle_exclude_file(fourth)}

\* run_ui has returned: the picker was left with Enter or with Ctrl-c.
InitCapture ==
    /\ fs \in MakeTrees
    /\ \E self \in CaptureFileLists(fs) :
          /\ file_items = self.file_items
          /\ file_keys = self.file_keys
          /\ file_list = self.file_list
          /\ indexed = self.indexed
          /\ exclude_patterns = self.exclude_patterns
          /\ exclude_exceptions = self.exclude_exceptions
          /\ exclude_explicit = self.exclude_explicit
          /\ highlight = self.highlight
    /\ phase = "picker"
    /\ memo = <<>>
    /\ last_op = "run_ui returned"
    /\ panicked = FALSE
    /\ to_visit = <<>>
    /\ file_stream = <<>>
    /\ dest_dirs \in {{}, {<<>>}}
    /\ dest_files = <<>>
    /\ copy_pc = "idle"
    /\ mode = ModeList
    /\ aborted \in BOOLEAN
    /\ templates \in {{}, {OtherTemplate}}
    /\ template_dirs = templates
    /\ NoLoop
    /\ NoLayout
    /\ NoQueries
    /\ NoFsm
    /\ NoWalk

\* make.rs:122-124: the picker was aborted, the process exits.
MakeAbort ==
    /\ InPicker
    /\ aborted
    /\ phase' = "exited"
    /\ last_op' = "aborted"
    /\ UNCHANGED <<fl_vars, memo, panicked, copy_vars, ui_vars, run_vars,
                   layout_vars, query_vars, fsm_vars, walk_vars, config_vars>>

\* make.rs:132-159: the template's directory exists already and the user
\* does not want it erased, the process exits.
MakeDeclineErase ==
    /\ InPicker
    /\ ~aborted
    /\ <<>> \in dest_dirs
    /\ phase' = "exited"
    /\ last_op' = "Aborting."
    /\ UNCHANGED <<fl_vars, memo, panicked, copy_vars, ui_vars, run_vars,
                   layout_vars, query_vars, fsm_vars, walk_vars, config_vars>>

\* MakeRegister without waiting for recursive_copy to return.
MakeRegister_during_copy ==
    /\ ~panicked
    /\ phase = "make"
    /\ phase' = "registered"
    /\ templates' = templates \cup {NewTemplate}
    /\ template_dirs' = template_dirs \cup {NewTemplate}
    /\ last_op' = "insert_template Ok"
    /\ UNCHANGED <<fl_vars, memo, panicked, copy_vars, ui_vars, run_vars,
                   layout_vars, query_vars, fsm_vars, walk_vars>>

\* make.rs:203-216: block_on has returned, the template is inserted in
\* config.templates.  insert_template is not among the sources: its Ok is
\* taken to add the template, and on its Err the unwrap panics.
MakeRegister ==
    /\ ~panicked
    /\ phase = "make"
    /\ copy_pc = "done"
    /\ \E inserted \in BOOLEAN :
          IF inserted
          THEN /\ phase' = "registered"
               /\ templates' = templates \cup {NewTemplate}
               /\ template_dirs' = template_dirs \cup {NewTemplate}
               /\ last_op' = "insert_template Ok"
               /\ UNCHANGED panicked
          ELSE /\ panicked' = TRUE
               /\ last_op' = "insert_template Err"
               /\ UNCHANGED <<phase, config_vars>>
    /\ UNCHANGED <<fl_vars, memo, copy_vars, ui_vars, run_vars,
                   layout_vars, query_vars, fsm_vars, walk_vars>>

NextCapture ==
    \/ MakeAbort
    \/ MakeDeclineErase
    \/ MakeCreateTarget
    \/ WalkLevel
    \/ MakeCopyEntry
    \/ CopyDone
    \/ MakeRegister

SpecCapture == InitCapture /\ [][NextCapture]_vars

\* ------------------------------------------------------------------------
\* boyl edit: deleting a template (src/cmd/edit.rs:81-158,
\* src/config.rs:227-242).  last_op is here the last call of
\* delete_template: its key, what it returned, and the keys of the template
\* map when it was called.
\* ------------------------------------------------------------------------

\* The keys of the templates in the configuration.
RegistryKeys == {NewTemplate, OtherTemplate, "third"}

\* The LoadedConfig as a value: the keys of config.templates and the keys
\* whose template directory is on disk.
Registry == [templates |-> templates, dirs |-> template_dirs]

\* LoadedConfig::delete_template; remove_dir_all fails when the directory
\* is not there, and may fail for other reasons of the disk (io_fails).
delete_template(config, key, io_fails) ==
    IF key \notin config.templates
    THEN [result |-> "NoTemplate", config |-> config]
    ELSE LET removed == [config EXCEPT !.templates = @ \ {key}]
         IN  IF key \notin config.dirs \/ io_fails
             THEN [result |-> "IoErr", config |-> removed]
             ELSE [result |-> "Ok",
                   config |-> [removed EXCEPT !.dirs = @ \ {key}]]

\* EditUiMode::Delete(key, name)
EditModeDelete(key) == [tag |-> "Delete", key |-> key]

\* EditUi::new on a loaded configuration; a template directory may have
\* been removed behind the program's back.
InitEdit ==
    /\ fs = FsEmpty
    /\ file_items = FileList_new(fs).file_items
    /\ file_keys = FileList_new(fs).file_keys
    /\ file_list = FileList_new(fs).file_list
    /\ indexed = {}
    /\ exclude_patterns = {}
    /\ exclude_exceptions = {}
    /\ exclude_explicit = {}
    /\ highlight = 0
    /\ phase = "edit"
    /\ memo = <<>>
    /\ templates \in SUBSET RegistryKeys
    /\ template_dirs \in SUBSET templates
    /\ last_op = [result |-> "None", key |-> "None", before |-> templates]
    /\ panicked = FALSE
    /\ to_visit = <<>>
    /\ file_stream = <<>>
    /\ dest_dirs = {}
    /\ dest_files = <<>>
    /\ copy_pc = "idle"
    /\ mode = ModeList
    /\ aborted = FALSE
    /\ NoLoop
    /\ NoLayout
    /\ NoQueries
    /\ NoFsm
    /\ NoWalk

EditFrame ==
    UNCHANGED <<fl_vars, phase, memo, copy_vars, aborted, run_vars,
                layout_vars, query_vars, fsm_vars, walk_vars>>

\* list_input, x (edit.rs:81-93): asks about the highlighted template.
EditAskDelete ==
    /\ phase = "edit" /\ ~panicked
    /\ mode = ModeList
    /\ \E key \in templates : mode' = EditModeDelete(key)
    /\ UNCHANGED <<last_op, panicked, config_vars>>
    /\ EditFrame

\* delete_input, y (edit.rs:131-152).
EditDeleteYes ==
    /\ phase = "edit" /\ ~panicked
    /\ mode.tag = "Delete"
    /\ \E io_fails \in BOOLEAN :
          LET r == delete_template(Registry, mode.key, io_fails)
          IN  IF mode.key \notin templates \/ r.result = "NoTemplate"
              THEN /\ panicked' = TRUE
                   /\ UNCHANGED <<mode, last_op, config_vars>>
              ELSE /\ templates' = r.config.templates
                   /\ template_dirs' = r.config.dirs
                   /\ last_op' = [result |-> r.result, key |-> mode.key,
                                  before |-> templates]
                   /\ mode' = IF r.result = "IoErr" THEN ModeError ELSE ModeList
                   /\ UNCHANGED panicked
    /\ EditFrame

\* delete_input, another key (edit.rs:153).
EditDeleteNo ==
    /\ phase = "edit" /\ ~panicked
    /\ mode.tag = "Delete"
    /\ mode' = ModeList
    /\ UNCHANGED <<last_op, panicked, config_vars>>
    /\ EditFrame

\* on_key in EditUiMode::Error (edit.rs:261-264): any key closes the
\* message.
EditDismissError ==
    /\ phase = "edit" /\ ~panicked
    /\ mode = ModeError
    /\ mode' = ModeList
    /\ UNCHANGED <<last_op, panicked, config_vars>>
    /\ EditFrame

NextEdit ==
    \/ EditAskDelete
    \/ EditDeleteYes
    \/ EditDeleteNo
    \/ EditDismissError

SpecEdit == InitEdit /\ [][NextEdit]_vars

\* ------------------------------------------------------------------------
\* Concurrent calls of is_included_memoized_async on one files_memo, an
\* Arc<RwLock<HashMap>> (make.rs:173).  The section under memo.read()
\* (list.rs:216-221) and the section under memo.write() (list.rs:235-239)
\* are each atomic; what a call does between them reads the FileList only,
\* which nothing writes while the filter runs.
\* ------------------------------------------------------------------------

\* The calls that run at once.
MaxQueries == 2

\* FileLists the picker hands over on a, s/{c, d/{e}}: untouched; s
\* excluded and never opened; the pattern "?" registered; s and s/d opened,
\* s/d excluded and s/d/e excepted.
MemoFileLists ==
    LET new        == FileList_new(FsNested)
        s_excluded == toggle_exclude_file(go_down(new))
        d_excluded == toggle_exclude_file(go_down(toggle_folder(go_down(new))))
        e_excepted == toggle_exclude_file(go_down(toggle_folder(d_excluded)))
    IN  {new, s_excluded, exclude_pattern(new, <<"?">>).self, e_excepted}

\* A call that has not started.
IdleQuery == [path |-> <<>>, stack |-> <<>>, pc |-> "idle", answer |-> FALSE]

InitMemo ==
    /\ \E self \in MemoFileLists :
          /\ fs = self.base_path
          /\ file_items = self.file_items
          /\ file_keys = self.file_keys
          /\ file_list = self.file_list
          /\ indexed = self.indexed
          /\ exclude_patterns = self.exclude_patterns
          /\ exclude_exceptions = self.exclude_exceptions
          /\ exclude_explicit = self.exclude_explicit
          /\ highlight = self.highlight
    /\ phase = "copy"
    /\ memo = <<>>
    /\ last_op = "exit"
    /\ panicked = FALSE
    /\ to_visit = <<>>
    /\ file_stream = <<>>
    /\ dest_dirs = {}
    /\ dest_files = <<>>
    /\ copy_pc = "idle"
    /\ mode = ModeList
    /\ aborted = FALSE
    /\ NoLoop
    /\ NoLayout
    /\ queries = [q \in 1..MaxQueries |-> IdleQuery]
    /\ NoFsm
    /\ NoWalk
    /\ NoConfig

\* A step of a call writes nothing but the call's own state and the memo.
QueryFrame ==
    UNCHANGED <<fl_vars, phase, last_op, panicked, copy_vars, ui_vars,
                run_vars, layout_vars, fsm_vars, walk_vars, config_vars>>

\* `return answer` of the innermost call: the outermost call is done, an
\* inner one hands its answer to its caller, which goes on at list.rs:235.
query_return(query, answer) ==
    [query EXCEPT !.stack  = Pop(query.stack),
                  !.answer = answer,
                  !.pc     = IF Len(query.stack) = 1 THEN "done" ELSE "write"]

\* The filter calls is_included_memoized_async on an entry of the walk.
QueryStart(q) ==
    /\ queries[q].pc = "idle"
    /\ \E path \in AllPaths(fs) :
          queries' = [queries EXCEPT ![q] =
                         [path |-> path, stack |-> <<path>>, pc |-> "read",
                          answer |-> FALSE]]
    /\ UNCHANGED memo
    /\ QueryFrame

\* A lookup that takes the answer memoized for the parent directory.
QueryLookup_parent_hit(q) ==
    /\ queries[q].pc = "read"
    /\ LET path == Last(queries[q].stack)
       IN  queries' = [queries EXCEPT ![q] =
               IF path \in DOMAIN memo
               THEN query_return(queries[q], memo[path])
               ELSE IF parent_path(path) \in DOMAIN memo
               THEN [queries[q] EXCEPT !.pc = "write",
                                       !.answer = memo[parent_path(path)]]
               ELSE IF path \in DOMAIN file_keys
               THEN [queries[q] EXCEPT
                        !.pc = "write",
                        !.answer = is_id_included(FL, file_keys[path])]
               ELSE [queries[q] EXCEPT
                        !.stack = Append(@, parent_path(path))]]
    /\ UNCHANGED memo
    /\ QueryFrame

\* list.rs:216-234: the lookup under the read lock; on a miss the answer of
\* is_id_included for a known path, or the call on the parent.
QueryLookup(q) ==
    /\ queries[q].pc = "read"
    /\ LET path == Last(queries[q].stack)
       IN  queries' = [queries EXCEPT ![q] =
               IF path \in DOMAIN memo
               THEN query_return(queries[q], memo[path])
               ELSE IF path \in DOMAIN file_keys
               THEN [queries[q] EXCEPT
                        !.pc = "write",
                        !.answer = is_id_included(FL, file_keys[path])]
               ELSE [queries[q] EXCEPT
                        !.stack = Append(@, parent_path(path))]]
    /\ UNCHANGED memo
    /\ QueryFrame

\* list.rs:235-240: HashMap::insert under the write lock, for a directory,
\* and the return.
QueryInsert(q) ==
    /\ queries[q].pc = "write"
    /\ LET path == Last(queries[q].stack)
       IN  /\ memo' = IF is_dir(fs, path)
                      THEN (path :> queries[q].answer) @@ memo
                      ELSE memo
           /\ queries' = [queries EXCEPT ![q] =
                             query_return(queries[q], queries[q].answer)]
    /\ QueryFrame

NextMemo ==
    \/ \E q \in 1..MaxQueries : QueryStart(q)
    \/ \E q \in 1..MaxQueries : QueryLookup(q)
    \/ \E q \in 1..MaxQueries : QueryInsert(q)

SpecMemo == InitMemo /\ [][NextMemo]_vars

\* ------------------------------------------------------------------------
\* Properties of the FileList
\* ------------------------------------------------------------------------

Nodes == DOMAIN file_items

\* The Uuid under the cursor (file_list is not empty).
CursorKey == file_list[highlight + 1]

\* a is m or an ancestor of m along the parent links.
RECURSIVE IsAncestorOrSelf(_, _)
IsAncestorOrSelf(a, m) ==
    \/ m = a
    \/ /\ file_items[m].parent # None
       /\ IsAncestorOrSelf(a, file_items[m].parent)

\* The node itself is excluded in list `self`: explicitly, or by a pattern
\* that matches its base-relative path.
SelfExcluded(self, n) ==
    \/ n \in self.exclude_explicit
    \/ \E pattern \in self.exclude_patterns :
          matches_path(pattern, path_str(self.file_items[n].path))

\* The nodes that decide about n: n and its ancestors that carry an
\* exception or are excluded themselves.
Deciders(self, n) ==
    {a \in DOMAIN self.file_items :
        /\ IsAncestorOrSelf(a, n)
        /\ (a \in self.exclude_exceptions \/ SelfExcluded(self, a))}

\* The effective-inclusion rule, read off the nearest decider.
RuleIncluded(self, n) ==
    \/ Deciders(self, n) = {}
    \/ LET nearest == CHOOSE a \in Deciders(self, n) :
                        \A b \in Deciders(self, n) :
                            self.file_items[a].depth >= self.file_items[b].depth
       IN  nearest \in self.exclude_exceptions

\* C1: for a directory under the cursor, toggle_folder(); toggle_folder()
\* leaves file_list with its prior content, order and length.
C1_OpenCloseInvolution ==
    (file_list # <<>> /\ is_dir(fs, file_items[CursorKey].path))
        => toggle_folder(toggle_folder(FL)).file_list = file_list

\* C2: is_id_included(n) equals the effective-inclusion rule for every node:
\* an exception includes, else an explicit exclusion or a matching pattern
\* excludes, else the parent decides, and a node without parent is included.
C2_EffectiveInclusion ==
    \A n \in Nodes : is_id_included(FL, n) = RuleIncluded(FL, n)

\* A node without any entry of its own is excluded through its parent while
\* another node is included by an exception.
C2_Witness ==
    /\ last_op = "toggle_exclude_file"
    /\ \E n \in Nodes :
          /\ file_items[n].parent # None
          /\ n \notin exclude_exceptions
          /\ ~SelfExcluded(FL, n)
          /\ ~is_id_included(FL, n)
    /\ \E m \in exclude_exceptions : SelfExcluded(FL, m)

\* C3: every node with an exception is included, whatever its ancestors are.
C3_ExceptionPrecedence ==
    \A n \in exclude_exceptions : is_id_included(FL, n)

\* A node carries an exception while its parent is excluded.
C3_Witness ==
    \E n \in exclude_exceptions :
        /\ file_items[n].parent # None
        /\ ~is_id_included(FL, file_items[n].parent)

\* C4: toggle_exclude_file() negates is_included of the node under the cursor.
C4_ToggleFlips ==
    file_list # <<>>
        => is_id_included(toggle_exclude_file(FL), CursorKey)
             = ~is_id_included(FL, CursorKey)

\* C5: toggle_exclude_file() leaves is_included unchanged for every node that
\* is neither the node under the cursor nor one of its descendants.
C5_ToggleFrame ==
    file_list # <<>>
        => \A m \in Nodes :
              ~IsAncestorOrSelf(CursorKey, m)
                  => is_id_included(toggle_exclude_file(FL), m)
                       = is_id_included(FL, m)

\* Scenario C: one node matched by a pattern was excepted by a toggle, another
\* node matched by the same pattern is still excluded.
C5_Witness ==
    /\ last_op = "toggle_exclude_file"
    /\ \E pattern \in exclude_patterns :
        \E n \in exclude_exceptions :
        \E m \in Nodes \ {n} :
          /\ exclusion_pattern_matches(FL, pattern, n)
          /\ exclusion_pattern_matches(FL, pattern, m)
          /\ ~IsAncestorOrSelf(n, m)
          /\ ~is_id_included(FL, m)

\* The texts of PatternInputs with bad glob syntax.
Malformed == {<<"[">>, <<"a", "*", "*">>, <<"*", "*", "*">>}

\* C6: exclude_pattern on a malformed text returns an error and leaves the
\* whole FileList as it was.
C6_MalformedPatternNoChange ==
    \A text \in Malformed :
        exclude_pattern(FL, text) = [ok |-> FALSE, self |-> FL]

\* A malformed text was rejected while patterns and both sets had entries.
C6_Witness ==
    /\ last_op = "exclude_pattern Err"
    /\ exclude_patterns # {}
    /\ exclude_explicit # {}
    /\ exclude_exceptions # {}

\* C7: registering a valid pattern twice gives every node the effective
\* inclusion that registering it once gives.
C7_PatternIdempotence ==
    \A text \in PatternInputs \ Malformed :
        LET once  == exclude_pattern(FL, text).self
            twice == exclude_pattern(once, text).self
        IN  \A n \in Nodes : is_id_included(twice, n) = is_id_included(once, n)

\* A pattern that matches a node was registered a second time.
C7_Witness ==
    /\ last_op = "exclude_pattern Ok, registered before"
    /\ exclude_exceptions # {}
    /\ \E n \in Nodes : \E pattern \in exclude_patterns :
          exclusion_pattern_matches(FL, pattern, n) /\ ~is_id_included(FL, n)

\* C8: go_up and go_down saturate at 0 and len-1, move by one otherwise, do
\* nothing on an empty list, and change nothing but the cursor.
C8_NavigationSaturates ==
    LET len  == Len(file_list)
        up   == go_up(FL)
        down == go_down(FL)
    IN  /\ up.highlight = IF highlight = 0 THEN 0 ELSE highlight - 1
        /\ down.highlight = IF len = 0 THEN 0
                            ELSE IF highlight = len - 1 THEN len - 1
                            ELSE highlight + 1
        /\ up = [FL EXCEPT !.highlight = up.highlight]
        /\ down = [FL EXCEPT !.highlight = down.highlight]
        /\ len = 0 => (up = FL /\ down = FL)

\* go_down was called with the cursor on the last of several entries.
C8_Witness ==
    /\ last_op = "go_down, stayed"
    /\ Len(file_list) >= 3
    /\ highlight = Len(file_list) - 1

\* The longest prefix of path that is a known node.
RECURSIVE NearestKnown(_)
NearestKnown(path) ==
    IF path \in DOMAIN file_keys THEN path ELSE NearestKnown(parent_path(path))

\* C9: is_included_memoized_async answers, for a known path, is_included of
\* its node and, for an unknown path, is_included of its nearest known
\* ancestor.
C9_IncludedForPath ==
    \A path \in AllPaths(fs) :
        is_included_memoized_async(FL, path, memo).answer
            = is_id_included(FL, file_keys[NearestKnown(path)])

\* The memo holds answers, and a pattern matches a path that is not a node
\* while its nearest known ancestor is included.
C9_Witness ==
    /\ last_op = "is_included_memoized_async"
    /\ memo # <<>>
    /\ \E path \in AllPaths(fs) \ DOMAIN file_keys :
          /\ \E pattern \in exclude_patterns : matches_path(pattern, path_str(path))
          /\ is_included_memoized_async(FL, path, memo).answer

\* ------------------------------------------------------------------------
\* Properties of the replication
\* ------------------------------------------------------------------------

\* C10: replicating a tree with every entry included, into a target root that
\* is absent or empty, completes and yields the source's relative paths, file
\* contents and directories (empty ones too).
C10_CopyRoundTrip ==
    /\ ~panicked
    /\ copy_pc = "done" =>
          /\ dest_dirs \ {<<>>} = DOMAIN fs.ls \ {<<>>}
          /\ dest_files = fs.data

\* ------------------------------------------------------------------------
\* Properties of make's replication
\* ------------------------------------------------------------------------

\* What the filter answers for a path, asked afresh.
Included(path) == is_included_memoized_async(FL, path, <<>>).answer

\* C11: on a disk without errors, whatever the picker was made to include
\* or exclude, make's copy ends without a fatal error and every included
\* entry then exists below the template's directory at the same relative
\* path, files with their bytes.
C11_ReplicationHonoursInclusion ==
    phase = "make" =>
        /\ ~panicked
        /\ copy_pc = "done" =>
              \A p \in AllPaths(fs) \ {<<>>} :
                 Included(p) =>
                    IF is_dir(fs, p) THEN p \in dest_dirs
                    ELSE /\ p \in DOMAIN dest_files
                         /\ dest_files[p] = fs.data[p]

C15_ExitKeys ==
    /\ phase = "picker" =>
          /\ ~aborted
          /\ \A key \in Keys :
                LET r == on_key(PickerUi, key)
                IN  IF mode.tag = "List"
                    THEN /\ key \in {Char("\n"), Char("\r")} =>
                               r.reaction = "Exit" /\ ~r.self.aborted
                         /\ key = Ctrl("c") =>
                               r.reaction = "Exit" /\ r.self.aborted
                    ELSE r.reaction = "None" /\ ~r.self.aborted
    /\ phase = "exited" =>
          /\ last_op[1] = "List"
          /\ last_op[2] \in {"Enter", "Ctrl-c"}
          /\ aborted <=> last_op[2] = "Ctrl-c"

\* The screen is left with Ctrl-C after a pattern was registered in the
\* prompt.
C15_Witness ==
    /\ phase = "exited"
    /\ aborted
    /\ exclude_patterns # {}
    /\ last_op = <<"List", "Ctrl-c">>

\* C16: z opens the prompt; in the prompt Ctrl-C returns to list mode
\* without exiting; no key of the prompt but Enter changes the FileList (j,
\* k, o, x and r are text there), and Enter changes it only with a pattern
\* that parses.
C16_PromptKeepsModel ==
    phase = "picker" =>
        /\ mode.tag = "List" =>
              LET r == on_key(PickerUi, Char("z"))
              IN  /\ r.self.mode = ModeInput(InputField_new)
                  /\ r.self.file_list = FL
                  /\ r.reaction = "None"
        /\ mode.tag = "Input" =>
              \A key \in Keys :
                 LET r == on_key(PickerUi, key)
                 IN  /\ key = Ctrl("c") =>
                            /\ r.self.mode = ModeList
                            /\ r.reaction = "None"
                     /\ key \notin {Char("\n"), Char("\r")} =>
                            r.self.file_list = FL
                     /\ r.self.file_list # FL =>
                            pattern_new(consume_input(mode.input_field)).ok

\* x has been typed into the prompt over a list that is not empty.
C16_Witness ==
    /\ phase = "picker"
    /\ mode.tag = "Input"
    /\ consume_input(mode.input_field) = <<"x">>
    /\ last_op = <<"Input", "other">>
    /\ file_list # <<>>

\* The prompt holds a text that glob::Pattern::new refuses.
MalformedPrompt ==
    /\ phase = "picker"
    /\ mode.tag = "Input"
    /\ ~pattern_new(consume_input(mode.input_field)).ok

\* C17, as stated: Enter on a malformed pattern leaves the FileList
\* unchanged and puts the screen back in list mode, so that the next key is
\* taken as a command of the list mode.
C17_MalformedReturnsToList ==
    MalformedPrompt =>
        LET r == on_key(PickerUi, Char("\n"))
        IN  /\ r.self.file_list = FL
            /\ r.self.mode = ModeList
            /\ \A key \in Keys : on_key(r.self, key) = on_key_list(r.self, key)

\* C17, amended: Enter on a malformed pattern leaves the FileList unchanged
\* and puts the screen on the error line; the next key, whichever it is, only
\* dismisses the error (no command runs, the screen does not exit, the
\* FileList is unchanged) and puts the screen back in list mode, where the
\* key after it is taken as a command.
C17_MalformedShowsError ==
    /\ MalformedPrompt =>
          LET r == on_key(PickerUi, Char("\n"))
          IN  /\ r.self.file_list = FL
              /\ r.self.mode = ModeError
              /\ r.reaction = "None"
    /\ (phase = "picker" /\ mode.tag = "Error") =>
          \A key \in Keys :
             LET r == on_key(PickerUi, key)
             IN  /\ r.self.file_list = FL
                 /\ r.self.mode = ModeList
                 /\ r.self.aborted = aborted
                 /\ r.reaction = "None"
                 /\ ~r.panic
                 /\ \A next \in Keys :
                       on_key(r.self, next) = on_key_list(r.self, next)

\* Enter was pressed on a malformed pattern over a list that is not empty.
C17_Witness ==
    /\ phase = "picker"
    /\ mode = ModeError
    /\ last_op = <<"Input", "Enter">>
    /\ file_list # <<>>

\* ------------------------------------------------------------------------
\* Properties of the event loop
\* ------------------------------------------------------------------------

IsPrefix(a, b) == Len(a) <= Len(b) /\ a = SubSeq(b, 1, Len(a))

\* C13: the events handed to the screen are, in order, the events that
\* arrived in the channel: while the loop runs every event that arrived is
\* either handled or still queued, in the order of arrival; and the keys
\* arrive in the order they are read.
C13_ArrivalOrder ==
    /\ IsPrefix(handled, arrived)
    /\ ReceiverAlive => arrived = handled \o channel
    /\ ReceiverAlive => KeysOf(arrived) \o stdin \in KeyScripts
    /\ Len(channel) <= ChannelCapacity

\* Keys have reached the screen while the channel was full.
C13_Witness ==
    /\ Len(channel) = ChannelCapacity
    /\ Len(KeysOf(handled)) >= 2
    /\ loop_pc = "draw"

\* C14: run_ui returns only after the screen has reacted with Exit; the
\* loop stops at the first Exit (no event still queued or sent later is
\* handed to the screen after it), and the terminal is cleared before run_ui
\* returns.
C14_RunUntilExit ==
    /\ [](loop_pc \in {"exit", "returned"} => last_op = "Exit")
    /\ [](last_op = "Exit" => loop_pc \in {"exit", "returned"})
    /\ [](loop_pc = "returned" => terminal = "cleared")
    /\ [][last_op = "Exit" => handled' = handled]_vars

\* run_ui has returned and left events that had arrived unhandled.
C14_Witness ==
    /\ loop_pc = "returned"
    /\ terminal = "cleared"
    /\ last_op = "Exit"
    /\ Len(handled) < Len(arrived)
    /\ Len(KeysOf(handled)) >= 2

\* ------------------------------------------------------------------------
\* Properties of distribute
\* ------------------------------------------------------------------------

\* No box is wider than max_width, and there is a box.
BoxesFit == elements # <<>> /\ \A k \in 1..Len(elements) : elements[k].width <= max_width

\* C18: when no box is wider than max_width, distribute returns one
\* position per box, no box's span x + width exceeds max_width, and the
\* boxes of one line follow each other in input order without overlapping.
C18_WidthBound ==
    (last_op # "new" /\ BoxesFit) =>
        /\ last_op = "distribute returned"
        /\ Len(positions) = Len(elements)
        /\ \A k \in 1..Len(positions) :
              positions[k][1] + elements[k].width <= max_width
        /\ \A j, k \in 1..Len(positions) :
              (j < k /\ positions[j][2] = positions[k][2]) =>
                 positions[j][1] + elements[j].width <= positions[k][1]

\* ------------------------------------------------------------------------
\* Properties of the displayed list
\* ------------------------------------------------------------------------

Visible == {file_list[i] : i \in 1..Len(file_list)}

\* Some position of a displayed Uuid.
PosOf(n) == CHOOSE i \in 1..Len(file_list) : file_list[i] = n

\* C19: file_list is a flattening of the tree by the open flags: no Uuid is
\* displayed twice; a displayed node below the base has its parent displayed
\* before it and open, with only nodes below that parent in between; and
\* every child of a displayed open directory is displayed.
C19_VisibleFlattening ==
    /\ \A i, j \in 1..Len(file_list) : file_list[i] = file_list[j] => i = j
    /\ \A n \in Visible :
          LET parent == file_items[n].parent
          IN  parent # None =>
                 /\ parent \in Visible
                 /\ file_items[parent].open
                 /\ PosOf(parent) < PosOf(n)
                 /\ \A k \in (PosOf(parent) + 1)..PosOf(n) :
                       /\ file_list[k] # parent
                       /\ IsAncestorOrSelf(parent, file_list[k])
    /\ \A n \in Visible :
          file_items[n].open =>
             \A c \in Nodes : file_items[c].parent = n => c \in Visible

\* The Uuids of the entries of a directory, in the order read.
ChildrenInReadOrder(self, key) ==
    LET entries == read_dir(self.base_path, self.file_items[key].path)
    IN  [i \in 1..Len(entries) |-> self.file_keys[entries[i]]]

\* C20: toggle_folder on a closed directory puts the directory's children
\* right after it, the child read first coming first, keeps every other
\* entry where it was relative to the others, and keeps the cursor.
C20_ExpandInReadOrder ==
    (/\ file_list # <<>>
     /\ is_dir(fs, file_items[CursorKey].path)
     /\ ~file_items[CursorKey].open)
        => LET after == toggle_folder(FL)
           IN  /\ after.file_list =
                      SubSeq(file_list, 1, highlight + 1)
                      \o ChildrenInReadOrder(after, CursorKey)
                      \o SubSeq(file_list, highlight + 2, Len(file_list))
               /\ after.highlight = highlight

\* The nodes stored as children of a directory.
StoredChildren(self, key) ==
    {k \in DOMAIN self.file_items : self.file_items[k].parent = key}

\* C21: expanding a directory that is already in `indexed` reads nothing
\* from the disk: it succeeds and displays exactly the children stored at
\* the first expansion, whatever the directory holds by now, and it assigns
\* no new id.
C21_ReexpansionFromStore ==
    (/\ ~panicked
     /\ file_list # <<>>
     /\ is_dir(fs, file_items[CursorKey].path)
     /\ ~file_items[CursorKey].open
     /\ CursorKey \in indexed)
        => /\ ~toggle_folder_panics(FL)
           /\ LET after == toggle_folder(FL)
                  added == Len(after.file_list) - Len(file_list)
              IN  /\ {after.file_list[i] : i \in highlight + 2..highlight + 1 + added}
                         = StoredChildren(FL, CursorKey)
                  /\ DOMAIN after.file_items = DOMAIN file_items
                  /\ after.file_keys = file_keys

\* C22: toggle_exclude_file changes one set by one entry, the one of the node
\* under the cursor: an included node leaves exclude_exceptions if it is in
\* it and enters exclude_explicit otherwise; an excluded node leaves
\* exclude_explicit if it is in it and enters exclude_exceptions otherwise.
\* The other set, the other nodes' entries, the patterns, the list and the
\* cursor are kept.
C22_ToggleSetUpdates ==
    file_list # <<>>
        => LET n        == CursorKey
               included == is_id_included(FL, n)
           IN  toggle_exclude_file(FL) =
                 IF included /\ n \in exclude_exceptions
                 THEN [FL EXCEPT !.exclude_exceptions = exclude_exceptions \ {n}]
                 ELSE IF included
                 THEN [FL EXCEPT !.exclude_explicit = exclude_explicit \cup {n}]
                 ELSE IF n \in exclude_explicit
                 THEN [FL EXCEPT !.exclude_explicit = exclude_explicit \ {n}]
                 ELSE [FL EXCEPT !.exclude_exceptions = exclude_exceptions \cup {n}]

\* A toggle excepted the node under the cursor, which a pattern or an
\* ancestor excludes, while other nodes have entries in both sets.
C22_Witness ==
    /\ last_op = "toggle_exclude_file"
    /\ file_list # <<>>
    /\ CursorKey \in exclude_exceptions
    /\ exclude_exceptions \ {CursorKey} # {}
    /\ exclude_explicit # {}
    /\ ~is_id_included([FL EXCEPT !.exclude_exceptions = @ \ {CursorKey}],
                       CursorKey)

\* The pattern matches the path of the node relative to the base directory.
MatchesNode(pattern, id) == matches_path(pattern, path_str(file_items[id].path))

\* C23: after exclude_pattern succeeds on p, p is registered, no id left in
\* exclude_explicit or exclude_exceptions has a path that p matches, every
\* entry whose path p does not match is still there (nothing is added), and
\* the list and the cursor are as before.
C23_PatternPrunesMatches ==
    \A text \in PatternInputs :
        LET r == exclude_pattern(FL, text)
            p == pattern_new(text).pattern
        IN  r.ok =>
              /\ r.self.exclude_patterns = exclude_patterns \cup {p}
              /\ r.self.exclude_explicit =
                     {id \in exclude_explicit : ~MatchesNode(p, id)}
              /\ r.self.exclude_exceptions =
                     {id \in exclude_exceptions : ~MatchesNode(p, id)}
              /\ r.self.file_list = file_list
              /\ r.self.highlight = highlight

\* A pattern was registered, and entries that another valid text matches
\* are left in both sets.
C23_Witness ==
    /\ last_op = "exclude_pattern Ok"
    /\ \E text \in PatternInputs :
          LET p == pattern_new(text).pattern
          IN  /\ pattern_new(text).ok
              /\ \E id \in exclude_explicit : MatchesNode(p, id)
              /\ \E id \in exclude_exceptions : MatchesNode(p, id)

\* is_included_for_path without a memo: is_id_included of the node of the
\* path or, for a path that is not a node, of its nearest known ancestor.
Unmemoized(path) == is_id_included(FL, file_keys[NearestKnown(path)])

\* C24: whatever the interleaving of the read and write sections of the
\* calls that share files_memo, every call returns what the unmemoized
\* evaluation returns for its path, and an entry of the memo, written for
\* directories only, never changes its value.
C24_MemoUnderConcurrency ==
    /\ [](\A q \in DOMAIN queries :
             queries[q].pc = "done"
                 => queries[q].answer = Unmemoized(queries[q].path))
    /\ [](\A path \in DOMAIN memo : is_dir(fs, path))
    /\ [][\A path \in DOMAIN memo :
             path \in DOMAIN memo' /\ memo'[path] = memo[path]]_vars

\* One call has returned and another is about to insert the answer FALSE
\* for a directory that the memo already holds.
C24_Witness ==
    \E q1, q2 \in DOMAIN queries :
        /\ queries[q1].pc = "done"
        /\ queries[q1].path \notin DOMAIN file_keys
        /\ queries[q2].pc = "write"
        /\ Last(queries[q2].stack) \in DOMAIN memo
        /\ ~queries[q2].answer

\* ------------------------------------------------------------------------
\* Properties of the scheduling in run_ui
\* ------------------------------------------------------------------------

\* C25: an event is taken from the channel only when the loop stands at
\* recv, with every event handled before it drawn; a draw happens only
\* when the loop stands at draw and hands no event to the screen; and the
\* FilePickerUi and its FileList change only in the step that hands an
\* event to the screen, so a step of the key thread or of the resize task
\* changes neither.
C25_SingleConsumer ==
    /\ [][handled' # handled
            => /\ loop_pc = "recv"
               /\ loop_pc' \in {"draw", "exit"}
               /\ draws = Len(handled)
               /\ draws' = draws]_vars
    /\ [][draws' # draws
            => /\ loop_pc = "draw"
               /\ loop_pc' = "recv"
               /\ handled' = handled]_vars
    /\ [][<<fl_vars, ui_vars>>' # <<fl_vars, ui_vars>>
            => handled' # handled]_vars
    /\ [][(stdin' # stdin \/ resizes' # resizes)
            => /\ UNCHANGED <<fl_vars, ui_vars, handled, draws, loop_pc>>
               /\ \/ channel' = channel
                  \/ \E ev \in {FsmTick} \cup {FsmKey(key) : key \in Keys} :
                        channel' = Append(channel, ev)]_vars

\* The screen is being drawn in prompt mode after several draws, while the
\* producers have filled the channel.
C25_Witness ==
    /\ loop_pc = "draw"
    /\ draws >= 2
    /\ mode.tag = "Input"
    /\ Len(channel) = ChannelCapacity
    /\ resizes > 0

\* C26: every event taken from the channel is followed by a call of draw,
\* whatever the reaction, the event that yields Exit included: whenever the
\* loop waits for an event or has returned, there have been as many draws
\* as events handled.
C26_DrawAfterEveryEvent ==
    (~panicked /\ loop_pc \in {"recv", "returned"}) => draws = Len(handled)

\* C26, amended: every event whose reaction is not Exit is followed by a
\* call of draw, whether the draw succeeds or not; the event that yields
\* Exit is followed by none.
C26_DrawUnlessExit ==
    /\ (~panicked /\ loop_pc = "recv") => draws = Len(handled)
    /\ (~panicked /\ loop_pc = "draw") => draws = Len(handled) - 1
    /\ (~panicked /\ loop_pc \in {"exit", "returned"})
          => (last_op = "Exit" /\ draws = Len(handled) - 1)

\* run_ui has returned after keys and ticks were handled and drawn.
C26_Witness ==
    /\ loop_pc = "returned"
    /\ draws >= 3
    /\ Len(KeysOf(handled)) >= 2
    /\ \E i \in 2..Len(handled) : handled[i] = FsmTick

\* C28: the Tick that StateFsm::new sends is the first event in the
\* channel and the first the loop hands to the screen, before any key;
\* and no draw happens before on_tick has been called.
C28_TickBeforeDraw ==
    /\ arrived # <<>> /\ arrived[1] = FsmTick
    /\ handled # <<>> => handled[1] = FsmTick
    /\ draws > 0 => (handled # <<>> /\ handled[1] = FsmTick)

\* The first draw is about to happen while keys wait in the channel.
C28_Witness ==
    /\ loop_pc = "draw"
    /\ draws = 0
    /\ handled = <<FsmTick>>
    /\ KeysOf(channel) # <<>>

\* The tick tasks that can still send a Tick.
LiveTimers == {g \in DOMAIN timers : timers[g].status # "cancelled"}

\* C27: no Tick that the tick task of an earlier screen sent is handed to
\* the current screen, and at any time at most one tick task can still
\* send.
C27_NoSpuriousTick ==
    /\ \A i \in DOMAIN handled :
          handled[i].ev.timer # 0
              => timers[handled[i].ev.timer].screen = handled[i].to
    /\ Cardinality(LiveTimers) <= 1

\* ------------------------------------------------------------------------
\* Properties of the walk
\* ------------------------------------------------------------------------

Range(seq) == {seq[i] : i \in DOMAIN seq}

\* The entries a fault may cost: the entry whose metadata or listing fails,
\* and what lies below it.
FaultSkips(path) ==
    \E q \in read_fails(fs) \cup metadata_fails(fs) :
        Len(q) <= Len(path) /\ q = SubSeq(path, 1, Len(q))

\* C29: when the copy has ended, every entry of the source tree except the
\* entries that failed and the entries below them has been yielded by the
\* walker, the siblings of a failing entry too, and has been copied if it
\* is included.
C29_PartialFailureTolerant ==
    (copy_pc = "done" /\ ~panicked) =>
        \A path \in AllPaths(fs) :
            ~FaultSkips(path) =>
                /\ path \in Range(yielded)
                /\ Included(path) => path \in Range(copies)

\* Nothing fails on the disk.
NoFaults == read_fails(fs) = {} /\ metadata_fails(fs) = {}

\* The entries of the stream the filter has been asked about.
Consumed == SubSeq(yielded, 1, Len(yielded) - Len(file_stream))

\* The included entries of a sequence, in order.
RECURSIVE IncludedOf(_)
IncludedOf(entries) ==
    IF entries = <<>> THEN <<>>
    ELSE (IF Included(Head(entries)) THEN <<Head(entries)>> ELSE <<>>)
         \o IncludedOf(Tail(entries))

\* C30: on a disk without faults, as long as no copy has failed, the walker
\* yields entries below the source root only, none twice, a directory's
\* entry before the entries inside it; copy_from_to is called exactly once
\* on every yielded entry that the filter includes, in the order yielded,
\* and on nothing else; the walk ends, and when it has ended without a
\* failed copy every entry below the root has been yielded.
C30_ExactlyOnce ==
    /\ []((NoFaults /\ phase = "make" /\ ~panicked) =>
            /\ Range(yielded) \subseteq AllPaths(fs)
            /\ Cardinality(Range(yielded)) = Len(yielded)
            /\ \A i \in DOMAIN yielded :
                  Len(yielded[i]) > 1
                      => \E j \in 1..(i - 1) : yielded[j] = parent_path(yielded[i])
            /\ copies = IncludedOf(Consumed)
            /\ copy_pc = "done" => Range(yielded) = AllPaths(fs))
    /\ (NoFaults /\ phase = "make") => <>(copy_pc = "done" \/ panicked)

\* The copy has ended on the nested tree: all five entries were yielded,
\* some were filtered out and the others copied.
C30_Witness ==
    /\ NoFaults
    /\ phase = "make"
    /\ copy_pc = "done"
    /\ ~panicked
    /\ Len(yielded) = 5
    /\ copies # <<>>
    /\ Len(copies) < Len(yielded)

\* ------------------------------------------------------------------------
\* Properties of the line breaks of distribute
\* ------------------------------------------------------------------------

\* The partitions of n boxes into consecutive lines, each as the set of the
\* indices (0-based, as in splits) before which a new line starts.
Partitions(n) == SUBSET (1..(n - 1))

\* The end of the line that starts at box `from` in a partition.
LineEnd(breaks, n, from) ==
    IF \E b \in breaks : b > from
    THEN CHOOSE b \in breaks : b > from /\ \A c \in breaks : c > from => b <= c
    ELSE n

\* No line of the partition is wider than max_width.
Feasible(breaks) ==
    \A from \in breaks \cup {0} :
        range_sum(Widths(elements), from, LineEnd(breaks, Len(elements), from))
            <= max_width

\* The sum over the lines from `from` on of (max_width - width of the line)^3.
RECURSIVE TotalBadness(_, _)
TotalBadness(breaks, from) ==
    IF from >= Len(elements) THEN <<>>
    ELSE LET to == LineEnd(breaks, Len(elements), from)
         IN  big_add(pow3(max_width - range_sum(Widths(elements), from, to)),
                     TotalBadness(breaks, to), 0)

\* The partition distribute chose, read off the lines of its positions.
ChosenBreaks ==
    {k \in 1..(Len(positions) - 1) : positions[k][2] # positions[k + 1][2]}

\* C31: when no box is wider than max_width, distribute returns positions
\* whose lines are a partition of the boxes in which no line is wider than
\* max_width, and no such partition has a smaller sum of the cubes of the
\* unused widths of its lines.
C31_MinimalBadness ==
    (last_op # "new" /\ BoxesFit) =>
        /\ last_op = "distribute returned"
        /\ Len(positions) = Len(elements)
        /\ Feasible(ChosenBreaks)
        /\ \A breaks \in Partitions(Len(elements)) :
              Feasible(breaks) =>
                  ~big_less(TotalBadness(breaks, 0), TotalBadness(ChosenBreaks, 0))

\* The widths of all the boxes together fit in a u16, so that no sum of
\* widths in distribute overflows.
SumsFit == range_sum(Widths(elements), 0, Len(elements)) < U16Modulus

\* C32: for every max_width and every non-empty sequence of boxes, boxes
\* wider than max_width included, the call of distribute returns, with one
\* position per box.
C32_DistributeTerminates ==
    (last_op # "new" /\ elements # <<>> /\ SumsFit) =>
        /\ last_op = "distribute returned"
        /\ Len(positions) = Len(elements)

\* ------------------------------------------------------------------------
\* Properties of the outcome of boyl make
\* ------------------------------------------------------------------------

\* C33: when make's copy has ended without a fatal error, every file and
\* every directory that exists below the template's directory is included
\* by the picker's FileList, whatever toggles, patterns and expansions led
\* to it.
C33_NothingExcludedCreated ==
    (phase = "make" /\ copy_pc = "done" /\ ~panicked) =>
        \A path \in (dest_dirs \cup DOMAIN dest_files) \ {<<>>} : Included(path)

\* C33 as the code has it: during and after make's copy, every file below
\* the template's directory is included, and every directory below it is
\* included or is an ancestor of an included file that was copied (the
\* parents of a file are created with it).
C33_OnlyIncludedOrParents ==
    (phase = "make" /\ ~panicked) =>
        /\ \A path \in DOMAIN dest_files : Included(path)
        /\ \A path \in dest_dirs \ {<<>>} :
              \/ Included(path)
              \/ \E file \in DOMAIN dest_files :
                    /\ Len(path) < Len(file)
                    /\ path = SubSeq(file, 1, Len(path))

\* The copy has ended; an excluded directory exists in the template because
\* a file in it is an exception, and another excluded entry was left out.
C33_Witness ==
    /\ phase = "make"
    /\ copy_pc = "done"
    /\ ~panicked
    /\ \E path \in dest_dirs \ {<<>>} : ~Included(path)
    /\ \E path \in AllPaths(fs) :
          ~Included(path) /\ path \notin dest_dirs \cup DOMAIN dest_files

C35_SetsDisjoint == exclude_explicit \cap exclude_exceptions = {}

\* Both sets hold a node, after a toggle and with a pattern registered.
C35_Witness ==
    /\ last_op = "toggle_exclude_file"
    /\ exclude_explicit # {}
    /\ exclude_exceptions # {}
    /\ exclude_patterns # {}

\* C36: whatever was done, the cursor is below the length of the displayed
\* list when the list is not empty and 0 when it is, and toggle_folder
\* leaves the cursor where it is, on the same node.
C36_CursorInBounds ==
    /\ file_list = <<>> => highlight = 0
    /\ file_list # <<>> => highlight < Len(file_list)
    /\ (file_list # <<>> /\ ~toggle_folder_panics(FL)) =>
          LET after == toggle_folder(FL)
          IN  /\ after.highlight = highlight
              /\ after.file_list[after.highlight + 1] = CursorKey

\* A directory that is not the first entry was closed under the cursor,
\* and entries follow it.
C36_Witness ==
    /\ last_op = "toggle_folder"
    /\ highlight > 0
    /\ is_dir(fs, file_items[CursorKey].path)
    /\ ~file_items[CursorKey].open
    /\ CursorKey \in indexed
    /\ highlight + 1 < Len(file_list)

\* C37: on a base directory without children, whatever methods of the
\* FileList were called, none has panicked and the FileList is as
\* FileList::new made it.
C37_DefinedOnEmptyList ==
    fs = FsEmpty =>
        /\ ~panicked
        /\ FL = FileList_new(fs)

\* ------------------------------------------------------------------------
\* Properties of the bounded channel of run_ui
\* ------------------------------------------------------------------------

\* C38: run_ui never waits on its own channel: whenever StateFsm::new is
\* about to send the first Tick, whether or not the tick task is running
\* already, the channel has room for it.
C38_StartupNeverBlocks ==
    loop_pc = "new" => Len(channel) < ChannelCapacity

\* ------------------------------------------------------------------------
\* Invariant of the InputField
\* ------------------------------------------------------------------------

\* C39: after any sequence of add_char, backspace_char, delete_char,
\* caret_move_left and caret_move_right the caret lies between 0 and the
\* length of the buffer less one, the buffer ends with the sentinel space,
\* and consume_input is the buffer without the sentinel: the text the edits
\* make when each is applied at the caret.
C39_InputFieldInvariant ==
    mode.tag = "Input" =>
        LET field == mode.input_field
        IN  /\ ~panicked
            /\ 0 <= field.caret_position
            /\ field.caret_position <= Len(field.input_buffer) - 1
            /\ field.input_buffer # <<>>
            /\ field.input_buffer[Len(field.input_buffer)] = " "
            /\ field.input_buffer = Append(consume_input(field), " ")
            /\ consume_input(field) = last_op.left \o last_op.right
            /\ field.caret_position = Len(last_op.left)

\* C39 witness: a text of full length whose caret stands inside it, before
\* a typed space.
C39_Witness ==
    /\ mode.tag = "Input"
    /\ Len(last_op.left) + Len(last_op.right) = MaxInputLen
    /\ last_op.left # <<>>
    /\ last_op.right # <<>>
    /\ Head(last_op.right) = " "
    /\ mode.input_field.caret_position = Len(last_op.left)

\* ------------------------------------------------------------------------
\* Properties of delete_template
\* ------------------------------------------------------------------------

\* C40: delete_template leaves the template map as it was whenever it
\* returns an error: NoTemplate for a key that is not in the map, and IoErr
\* when the template's directory could not be removed; only a call that
\* returns Ok removes the entry.
C40_ErrorLeavesRegistry ==
    /\ \A key \in RegistryKeys \ templates : \A io_fails \in BOOLEAN :
          LET r == delete_template(Registry, key, io_fails)
          IN  r.result = "NoTemplate" /\ r.config.templates = templates
    /\ last_op.result \in {"NoTemplate", "IoErr"} => templates = last_op.before
    /\ last_op.result = "Ok" => templates = last_op.before \ {last_op.key}

====
